---- MODULE Spec2Model ----
(***************************************************************************)
(* msgpack-tracing: the tape machine pipeline                              *)
(*   writer  Logger -> RestartableMachine -> StringCache -> Rotate(Store)  *)
(*   reader  Load -> StringUncache -> Printer                              *)
(* Strings are sequences of bytes, a tape is a sequence of bytes 0..255,   *)
(* span ids are naturals with 0 standing for None (as on the wire).        *)
(***************************************************************************)
EXTENDS Integers, Sequences, FiniteSets, TLC

VARIABLES
    \* ---- writer pipeline (specification Spec)
    spans,      \* tracing registry: the open spans, id -> [parent, name, records]
    calls,      \* number of front-end callbacks made so far (bounded by MaxCalls)
    rm,         \* RestartableMachine: [span, current]
    sc,         \* StringCache.strings: string -> index
    rot,        \* Rotate: [file, named, path, path1], the files as their bytes
    rotated,    \* what needs_restart() returned in the last callback
    fe_batch,   \* instructions the front end issued in the last callback
    rm_batch,   \* instructions RestartableMachine forwarded in the last callback
    sc_batch,   \* instructions StringCache forwarded (the sink received) in it
    su_batch,   \* instructions StringUncache forwarded in it
    sink_seg,   \* instructions the sink received since the last Restart (inclusive)
    \* ---- reader side (both specifications)
    su,         \* StringUncache.strings: sequence of strings
    pr,         \* Printer: [span, new_records, new_event, out]
    \* ---- codec and viewer (specification SpecCodec)
    phase,      \* "store" while the tape is written, "load" once it is read
    garbage,    \* bytes B written before the tape
    cut,        \* number of bytes the last write lost (a writer that died), 0 if none
    tape,       \* bytes of the tape T (Store output)
    stored,     \* instructions handed to Store, in order
    ld,         \* outcome of Load::forward on the tape: "none", "ok" or "err"
    ld_out,     \* instructions Load::forward handed to its machine
    vw,         \* viewer loop (print_log): Load's [pos, started] and the loop's pc
    vw_out,     \* what fetch_one_cached returned to the viewer loop so far
    \* ---- the conversions taken alone (specification SpecPure)
    probe,      \* [f, x, y, done]: function f, its input x and, once done, y = f(x)
    \* ---- the sink under failing I/O (specification SpecSink)
    sink,       \* the last call made on the chain: its arguments, the state
                \* before it, the outcome of the file system calls, its result
    \* ---- the callbacks of several threads (specification SpecThreads)
    \* ---- one machine fed any instructions (specification SpecMachines)
    mach,       \* [who, n, last, m, prev, panic, g]: the machine, the number
                \* of instructions it was handed and the last of them, its
                \* state now and before that one, whether it panicked on it,
                \* and what the instructions so far amount to
    \* ---- installing loggers (specification SpecInstall)
    inst,       \* [installed, calls, files]: the call whose logger is the global
                \* default (0: none), the install calls made, the log files
    th          \* [lock, pc, todo, span, call, log]: the holder of the mutex
                \* (0: free), and per thread where it is in its callback, the
                \* instructions it has yet to hand over, the span the callback
                \* is about and the number of the callback; log is what the
                \* sink received, each entry with the number of its callback

vars == <<spans, calls, rm, sc, rot, rotated, fe_batch, rm_batch, sc_batch,
          su_batch, sink_seg, su, pr, phase, garbage, cut, tape, stored, ld,
          ld_out, vw, vw_out, probe, sink, th, mach, inst>>

writerVars == <<spans, calls, rm, sc, rot, rotated, fe_batch, rm_batch, sc_batch,
                su_batch, sink_seg>>
codecVars == <<phase, garbage, cut, tape, stored, ld, ld_out, vw, vw_out>>

(***************************************************************************)
(* Bounds of the model                                                     *)
(***************************************************************************)
MaxCalls == 3       \* front-end callbacks per behaviour
MaxFields == 1      \* fields one callback records
MaxSpanId == 2      \* span ids the tracing registry hands out
MaxLen == 8         \* max_len of Rotate, in bytes
MaxStored == 3      \* instructions stored on a tape
MaxGarbage == 2     \* bytes written before the tape
MaxCut == 2         \* bytes a dying writer can lose

(***************************************************************************)
(* Sequence and byte helpers                                               *)
(***************************************************************************)
RECURSIVE Flatten(_)
Flatten(ss) == IF ss = <<>> THEN <<>> ELSE Head(ss) \o Flatten(Tail(ss))

Slice(s, from, to) == IF from > to THEN <<>> ELSE SubSeq(s, from, to)

\* big-endian bytes of a non-negative number, n bytes wide
RECURSIVE BE(_, _)
BE(v, n) == IF n = 0 THEN <<>> ELSE BE(v \div 256, n - 1) \o <<v % 256>>

\* value of big-endian bytes
RECURSIVE FromBE(_)
FromBE(bs) ==
    IF bs = <<>> THEN 0 ELSE FromBE(Slice(bs, 1, Len(bs) - 1)) * 256 + bs[Len(bs)]

\* little-endian bytes of a non-negative number, n bytes wide
RECURSIVE LE(_, _)
LE(v, n) == IF n = 0 THEN <<>> ELSE <<v % 256>> \o LE(v \div 256, n - 1)

\* value of little-endian bytes
RECURSIVE FromLE(_)
FromLE(bs) == IF bs = <<>> THEN 0 ELSE bs[1] + 256 * FromLE(Tail(bs))

Pow256(n) == CASE n = 1 -> 256 [] n = 2 -> 65536 [] n = 3 -> 16777216

\* two's complement value of big-endian bytes
FromBESigned(bs) ==
    IF bs[1] < 128 THEN FromBE(bs)
    ELSE LET half == IF Len(bs) = 1 THEN 64 ELSE Pow256(Len(bs) - 1) * 64
         IN  (FromBE(<<bs[1] - 128>> \o Tail(bs)) - half) - half

\* big-endian two's complement bytes of a negative number
BESigned(v, n) ==
    IF n = 1 THEN <<v + 256>>
    ELSE <<(v \div Pow256(n - 1)) + 256>> \o BE(v % Pow256(n - 1), n - 1)

\* std::str::from_utf8 succeeds on these bytes
RECURSIVE ValidUtf8(_)
ValidUtf8(bs) ==
    LET Cont(k) == k <= Len(bs) /\ bs[k] >= 128 /\ bs[k] <= 191
        b == bs[1]
    IN  IF bs = <<>> THEN TRUE
        ELSE IF b < 128 THEN ValidUtf8(Tail(bs))
        ELSE IF b >= 194 /\ b <= 223
             THEN Cont(2) /\ ValidUtf8(Slice(bs, 3, Len(bs)))
        ELSE IF b >= 224 /\ b <= 239
             THEN /\ Cont(2) /\ Cont(3)
                  /\ (b = 224 => bs[2] >= 160)
                  /\ (b = 237 => bs[2] <= 159)
                  /\ ValidUtf8(Slice(bs, 4, Len(bs)))
        ELSE IF b >= 240 /\ b <= 244
             THEN /\ Cont(2) /\ Cont(3) /\ Cont(4)
                  /\ (b = 240 => bs[2] >= 144)
                  /\ (b = 244 => bs[2] <= 143)
                  /\ ValidUtf8(Slice(bs, 5, Len(bs)))
        ELSE FALSE

(***************************************************************************)
(* Instruction set (tape.rs): opcodes                                      *)
(***************************************************************************)
\* From<InstructionId> for u8
IdToByte(id) ==
    CASE id = "Restart" -> 255
      [] id = "NewString" -> 1
      [] id = "NewSpan" -> 2
      [] id = "FinishedSpan" -> 4
      [] id = "NewRecord" -> 8
      [] id = "FinishedRecord" -> 16
      [] id = "StartEvent" -> 32
      [] id = "FinishedEvent" -> 64
      [] id = "AddValue" -> 128
      [] id = "DeleteSpan" -> 0

\* a TryFrom<u8> that takes every unknown byte for DeleteSpan
ByteToIdLenient(b) ==
    CASE b = 255 -> "Restart"
      [] b = 1 -> "NewString"
      [] b = 2 -> "NewSpan"
      [] b = 4 -> "FinishedSpan"
      [] b = 8 -> "NewRecord"
      [] b = 16 -> "FinishedRecord"
      [] b = 32 -> "StartEvent"
      [] b = 64 -> "FinishedEvent"
      [] b = 128 -> "AddValue"
      [] OTHER -> "DeleteSpan"

\* TryFrom<u8> for InstructionId; "Err" for an unknown byte
ByteToId(b) ==
    CASE b = 255 -> "Restart"
      [] b = 1 -> "NewString"
      [] b = 2 -> "NewSpan"
      [] b = 4 -> "FinishedSpan"
      [] b = 8 -> "NewRecord"
      [] b = 16 -> "FinishedRecord"
      [] b = 32 -> "StartEvent"
      [] b = 64 -> "FinishedEvent"
      [] b = 128 -> "AddValue"
      [] b = 0 -> "DeleteSpan"
      [] OTHER -> "Err"

\* CacheString::Present / CacheString::Cached
Present(s) == [c |-> FALSE, s |-> s, i |-> 0]
Cached(i) == [c |-> TRUE, s |-> <<>>, i |-> i]

\* Value<&str>: tag, string or bytes, number
Val(t, s, n) == [t |-> t, s |-> s, n |-> n]
\* Value<CacheString>: the string of String/Debug is a CacheString
CVal(t, s, n, c, i) == [t |-> t, s |-> s, n |-> n, c |-> c, i |-> i]

(***************************************************************************)
(* MessagePack primitives used by Store (rmp::encode)                      *)
(***************************************************************************)
\* encode::write_uint: the smallest unsigned form
WriteUint(v) ==
    IF v < 128 THEN <<v>>
    ELSE IF v < 256 THEN <<204>> \o BE(v, 1)
    ELSE IF v < 65536 THEN <<205>> \o BE(v, 2)
    ELSE <<206>> \o BE(v, 4)

\* encode::write_sint: the smallest form; non-negative numbers take the
\* unsigned forms
WriteSint(v) ==
    IF v >= -32 /\ v < 0 THEN <<v + 256>>
    ELSE IF v >= -128 /\ v < -32 THEN <<208>> \o BESigned(v, 1)
    ELSE IF v >= -32768 /\ v < -128 THEN <<209>> \o BESigned(v, 2)
    ELSE IF v < -32768 THEN <<210>> \o BESigned(v, 4)
    ELSE WriteUint(v)

\* encode::write_str
WriteStr(s) ==
    (IF Len(s) < 32 THEN <<160 + Len(s)>>
     ELSE IF Len(s) < 256 THEN <<217, Len(s)>>
     ELSE <<218>> \o BE(Len(s), 2)) \o s

\* encode::write_bin
WriteBin(s) ==
    (IF Len(s) < 256 THEN <<196, Len(s)>> ELSE <<197>> \o BE(Len(s), 2)) \o s

\* encode::write_bool
WriteBool(b) == IF b = 1 THEN <<195>> ELSE <<194>>

\* encode::write_f64: marker and the 8 bytes of the number
WriteF64(bits) == <<203>> \o bits

\* encode::write_array_len for a short array
WriteArrayLen(n) == <<144 + n>>

(***************************************************************************)
(* CacheIndex (storage.rs)                                                 *)
(***************************************************************************)
AllZero(bs) == \A k \in 1..Len(bs) : bs[k] = 0

\* a u64 is kept as its eight little-endian bytes where its width matters;
\* U64 is u64::to_le_bytes of a number the model can hold
U64(value) == LE(value, 8)

\* a <= b on two u64, compared from the most significant byte down
RECURSIVE LeqU64From(_, _, _)
LeqU64From(a, b, k) ==
    IF k = 0 THEN TRUE
    ELSE IF a[k] # b[k] THEN a[k] < b[k]
    ELSE LeqU64From(a, b, k - 1)
LeqU64(a, b) == LeqU64From(a, b, 8)

\* the ends of the ranges of indices: 0xffff, 0xff_ffff, 0xff_ffff_ffff
U64_FFFF == <<255, 255, 0, 0, 0, 0, 0, 0>>
U64_FFFFFF == <<255, 255, 255, 0, 0, 0, 0, 0>>
U64_FFFFFFFFFF == <<255, 255, 255, 255, 255, 0, 0, 0>>

\* From<u64> for CacheIndex with a form that drops one byte too many
CacheIndexFromLeNarrow(bytes) ==
    IF AllZero(SubSeq(bytes, 3, 8)) THEN [k |-> "U16", data |-> SubSeq(bytes, 1, 2)]
    ELSE IF AllZero(SubSeq(bytes, 4, 8)) THEN [k |-> "U24", data |-> SubSeq(bytes, 1, 3)]
    ELSE IF AllZero(SubSeq(bytes, 7, 8)) THEN [k |-> "U40", data |-> SubSeq(bytes, 1, 5)]
    ELSE [k |-> "U64", data |-> <<0>> \o bytes]

\* From<u64> for CacheIndex: the form is chosen on the little-endian bytes
CacheIndexFromLe(bytes) ==
    IF AllZero(SubSeq(bytes, 3, 8)) THEN [k |-> "U16", data |-> SubSeq(bytes, 1, 2)]
    ELSE IF AllZero(SubSeq(bytes, 4, 8)) THEN [k |-> "U24", data |-> SubSeq(bytes, 1, 3)]
    ELSE IF AllZero(SubSeq(bytes, 6, 8)) THEN [k |-> "U40", data |-> SubSeq(bytes, 1, 5)]
    ELSE [k |-> "U64", data |-> <<0>> \o bytes]

CacheIndexFrom(value) == CacheIndexFromLe(U64(value))

\* From<CacheIndex> for u64: the array handed to u64::from_le_bytes
CacheIndexToLe(ci) ==
    CASE ci.k = "U16" -> ci.data \o <<0, 0, 0, 0, 0, 0>>
      [] ci.k = "U24" -> ci.data \o <<0, 0, 0, 0, 0>>
      [] ci.k = "U40" -> ci.data \o <<0, 0, 0>>
      [] ci.k = "U64" -> SubSeq(ci.data, 2, 9)

CacheIndexToU64(ci) == FromLE(CacheIndexToLe(ci))

\* CacheIndex::marker, as the marker's byte (fixext1, 2, 4, 8)
CacheIndexMarker(ci) ==
    CASE ci.k = "U16" -> 212
      [] ci.k = "U24" -> 213
      [] ci.k = "U40" -> 214
      [] ci.k = "U64" -> 215

\* CacheIndex::write
CacheIndexWrite(ci) == <<CacheIndexMarker(ci)>> \o ci.data

(***************************************************************************)
(* Store (storage.rs)                                                      *)
(***************************************************************************)
\* priority_num
priority_num(level) ==
    CASE level = "TRACE" -> 0
      [] level = "DEBUG" -> 1
      [] level = "INFO" -> 2
      [] level = "WARN" -> 3
      [] level = "ERROR" -> 4

\* a num_priority that takes the numbers it does not know for the lowest level
num_priority_low(num) ==
    CASE num = 0 -> "TRACE"
      [] num = 1 -> "DEBUG"
      [] num = 2 -> "INFO"
      [] num = 3 -> "WARN"
      [] num = 4 -> "ERROR"
      [] OTHER -> "TRACE"

\* num_priority
num_priority(num) ==
    CASE num = 0 -> "TRACE"
      [] num = 1 -> "DEBUG"
      [] num = 2 -> "INFO"
      [] num = 3 -> "WARN"
      [] num = 4 -> "ERROR"
      [] OTHER -> "ERROR"

\* Store::write_cache_str
WriteCacheStr(str) ==
    IF str.c THEN CacheIndexWrite(CacheIndexFrom(str.i)) ELSE WriteStr(str.s)

\* Store::write_cache_value
WriteCacheValue(value) ==
    LET str == [c |-> value.c, s |-> value.s, i |-> value.i]
    IN  CASE value.t = "Debug" -> WriteArrayLen(1) \o WriteCacheStr(str)
          [] value.t = "String" -> WriteCacheStr(str)
          [] value.t = "Float" -> WriteF64(value.s)
          [] value.t = "Integer" -> WriteSint(value.n)
          [] value.t = "Unsigned" -> WriteUint(value.n)
          [] value.t = "Bool" -> WriteBool(value.n)
          [] value.t = "ByteArray" -> WriteBin(value.s)

\* Store::do_handle_cached: the opcode byte, then the payload
DoHandleCached(instruction) ==
    LET op == instruction.op
    IN  <<IdToByte(op)>> \o
        (CASE op = "NewString" -> WriteStr(instruction.str)
           [] op = "NewSpan" ->
                WriteUint(instruction.parent) \o WriteUint(instruction.span)
                    \o WriteCacheStr(instruction.name)
           [] op = "NewRecord" -> WriteUint(instruction.span)
           [] op = "StartEvent" ->
                WriteUint(instruction.time[1]) \o WriteUint(instruction.time[2])
                    \o WriteUint(instruction.span) \o WriteCacheStr(instruction.target)
                    \o WriteUint(priority_num(instruction.priority))
           [] op = "AddValue" ->
                WriteCacheStr(instruction.name) \o WriteCacheValue(instruction.value)
           [] op = "DeleteSpan" -> WriteUint(instruction.span)
           [] OTHER -> <<>>)

\* Store::do_handle, the match that turns an Instruction into a
\* CacheInstruction with every string Present: Debug(str) becomes
\* Value::String(Present(str)) (storage.rs:53)
PresentInstruction(instruction) ==
    LET op == instruction.op
    IN  CASE op = "NewSpan" ->
               [instruction EXCEPT !.name = Present(instruction.name)]
          [] op = "StartEvent" ->
               [instruction EXCEPT !.target = Present(instruction.target)]
          [] op = "AddValue" ->
               LET v == instruction.value
               IN  [instruction EXCEPT
                       !.name = Present(instruction.name),
                       !.value =
                           IF v.t = "Debug" \/ v.t = "String"
                           THEN CVal("String", v.s, 0, FALSE, 0)
                           ELSE CVal(v.t, v.s, v.n, FALSE, 0)]
          [] OTHER -> instruction

\* Store::do_handle
DoHandle(instruction) == DoHandleCached(PresentInstruction(instruction))

(***************************************************************************)
(* MessagePack primitives used by Load (rmp::decode over a BufReader).     *)
(* A read returns [ok, v, pos, err]: pos is the next unread byte (1-based).*)
(* read_exact past the end of the input consumes what is left.             *)
(***************************************************************************)
Ok(v, pos) == [ok |-> TRUE, v |-> v, pos |-> pos, err |-> ""]
Fail(e, pos) == [ok |-> FALSE, v |-> 0, pos |-> pos, err |-> e]

\* the ? operator: an error ends the read, a value goes on to Then
Try(r, Then(_)) == IF r.ok THEN Then(r) ELSE r

\* io::Read::read_exact of n bytes
ReadExact(bytes, pos, n) ==
    IF pos + n - 1 <= Len(bytes)
    THEN Ok(Slice(bytes, pos, pos + n - 1), pos + n)
    ELSE Fail("UnexpectedEof", Len(bytes) + 1)

\* the n data bytes after a marker, as a number
ReadData(bytes, pos, n, signed) ==
    Try(ReadExact(bytes, pos, n), LAMBDA d :
        Ok(IF signed THEN FromBESigned(d.v) ELSE FromBE(d.v), d.pos))

\* decode::read_int before the conversion to the target type: any integer
\* marker is accepted
IntAfterMarker(bytes, m, pos) ==
    IF m < 128 THEN Ok(m, pos)
    ELSE IF m >= 224 THEN Ok(m - 256, pos)
    ELSE IF m >= 204 /\ m <= 207
    THEN ReadData(bytes, pos, CASE m = 204 -> 1 [] m = 205 -> 2
                                [] m = 206 -> 4 [] m = 207 -> 8, FALSE)
    ELSE IF m >= 208 /\ m <= 211
    THEN ReadData(bytes, pos, CASE m = 208 -> 1 [] m = 209 -> 2
                                [] m = 210 -> 4 [] m = 211 -> 8, TRUE)
    ELSE Fail("TypeMismatch", pos)

ReadNum(bytes, pos) ==
    IF pos > Len(bytes) THEN Fail("InvalidMarkerRead", pos)
    ELSE IntAfterMarker(bytes, bytes[pos], pos + 1)

\* decode::read_int::<u64>: a negative number is out of range
ReadU64(bytes, pos) ==
    Try(ReadNum(bytes, pos), LAMBDA r :
        IF r.v < 0 THEN Fail("OutOfRange", r.pos) ELSE r)

\* decode::read_int::<i64>
ReadI64(bytes, pos) == ReadNum(bytes, pos)

IsStrMarker(m) == (m >= 160 /\ m <= 191) \/ m = 217 \/ m = 218 \/ m = 219
IsFixExtMarker(m) == m >= 212 /\ m <= 215

\* decode::read_str_len
StrLenAfterMarker(bytes, m, pos) ==
    IF m >= 160 /\ m <= 191 THEN Ok(m - 160, pos)
    ELSE IF m >= 217 /\ m <= 219
    THEN ReadData(bytes, pos, CASE m = 217 -> 1 [] m = 218 -> 2 [] m = 219 -> 4,
                  FALSE)
    ELSE Fail("TypeMismatch", pos)

ReadStrLen(bytes, pos) ==
    IF pos > Len(bytes) THEN Fail("InvalidMarkerRead", pos)
    ELSE StrLenAfterMarker(bytes, bytes[pos], pos + 1)

\* decode::read_bin_len
BinLenAfterMarker(bytes, m, pos) ==
    IF m >= 196 /\ m <= 198
    THEN ReadData(bytes, pos, CASE m = 196 -> 1 [] m = 197 -> 2 [] m = 198 -> 4,
                  FALSE)
    ELSE Fail("TypeMismatch", pos)

ReadBinLen(bytes, pos) ==
    IF pos > Len(bytes) THEN Fail("InvalidMarkerRead", pos)
    ELSE BinLenAfterMarker(bytes, bytes[pos], pos + 1)

\* decode::read_f32 / read_f64: the marker, then n bytes kept as they are
ReadFloat(bytes, pos, marker, n) ==
    IF pos > Len(bytes) THEN Fail("InvalidMarkerRead", pos)
    ELSE IF bytes[pos] # marker THEN Fail("TypeMismatch", pos + 1)
    ELSE ReadExact(bytes, pos + 1, n)

(***************************************************************************)
(* Load (storage.rs)                                                       *)
(***************************************************************************)
\* Load::do_read_str
DoReadStr(bytes, pos) ==
    Try(ReadStrLen(bytes, pos), LAMBDA len :
    Try(ReadExact(bytes, len.pos, len.v), LAMBDA d :
        IF ValidUtf8(d.v) THEN d ELSE Fail("Utf8Error", d.pos)))

\* a CacheIndex::read that takes no other type byte than 0
CacheIndexFormTyped(bytes, m, pos) ==
    IF IsFixExtMarker(m) /\ pos <= Len(bytes) /\ bytes[pos] # 0
    THEN Fail("UnexpectedType", pos)
    ELSE IF IsFixExtMarker(m)
    THEN Try(ReadExact(bytes, pos, CASE m = 212 -> 2 [] m = 213 -> 3
                                     [] m = 214 -> 5 [] m = 215 -> 9),
             LAMBDA d :
                Ok([k |-> CASE m = 212 -> "U16" [] m = 213 -> "U24"
                            [] m = 214 -> "U40" [] m = 215 -> "U64",
                    data |-> d.v], d.pos))
    ELSE Fail("UnexpectedMarker", pos)

\* CacheIndex::read
CacheIndexForm(bytes, m, pos) ==
    IF IsFixExtMarker(m)
    THEN Try(ReadExact(bytes, pos, CASE m = 212 -> 2 [] m = 213 -> 3
                                     [] m = 214 -> 5 [] m = 215 -> 9),
             LAMBDA d :
                Ok([k |-> CASE m = 212 -> "U16" [] m = 213 -> "U24"
                            [] m = 214 -> "U40" [] m = 215 -> "U64",
                    data |-> d.v], d.pos))
    ELSE Fail("UnexpectedMarker", pos)

CacheIndexRead(bytes, pos) ==
    Try(ReadExact(bytes, pos, 1), LAMBDA marker :
        CacheIndexForm(bytes, marker.v[1], marker.pos))

\* Load::do_read_cache_str: the marker is peeked, not consumed
CacheStrAtMarker(bytes, m, pos) ==
    IF IsStrMarker(m)
    THEN Try(DoReadStr(bytes, pos), LAMBDA r : Ok(Present(r.v), r.pos))
    ELSE IF IsFixExtMarker(m)
    THEN Try(CacheIndexRead(bytes, pos), LAMBDA r :
             Ok(Cached(CacheIndexToU64(r.v)), r.pos))
    ELSE Fail("UnexpectedMarker", pos)

DoReadCacheStr(bytes, pos) ==
    IF pos > Len(bytes) THEN Fail("EofOnMarker", pos)
    ELSE CacheStrAtMarker(bytes, bytes[pos], pos)

\* a String or Debug value around the cache string read at position at
StrValue(bytes, tag, at) ==
    Try(DoReadCacheStr(bytes, at), LAMBDA r :
        Ok(CVal(tag, r.v.s, 0, r.v.c, r.v.i), r.pos))

\* Load::do_read_value: the marker is peeked; the arms for False and True
\* return without consuming it (storage.rs:382-383)
ValueAtMarker(bytes, m, pos) ==
    IF m = 145 THEN StrValue(bytes, "Debug", pos + 1)
    ELSE IF m < 128 \/ m >= 224 \/ (m >= 208 /\ m <= 211)
    THEN Try(ReadI64(bytes, pos), LAMBDA r :
             Ok(CVal("Integer", <<>>, r.v, FALSE, 0), r.pos))
    ELSE IF IsStrMarker(m) \/ IsFixExtMarker(m) THEN StrValue(bytes, "String", pos)
    ELSE IF m = 194 THEN Ok(CVal("Bool", <<>>, 0, FALSE, 0), pos)
    ELSE IF m = 195 THEN Ok(CVal("Bool", <<>>, 1, FALSE, 0), pos)
    ELSE IF m >= 196 /\ m <= 198
    THEN Try(ReadBinLen(bytes, pos), LAMBDA n :
         Try(ReadExact(bytes, n.pos, n.v), LAMBDA d :
             Ok(CVal("ByteArray", d.v, 0, FALSE, 0), d.pos)))
    ELSE IF m = 202 \/ m = 203
    THEN Try(ReadFloat(bytes, pos, m, IF m = 202 THEN 4 ELSE 8), LAMBDA r :
             Ok(CVal("Float", r.v, 0, FALSE, 0), r.pos))
    ELSE IF m >= 204 /\ m <= 207
    THEN Try(ReadU64(bytes, pos), LAMBDA r :
             Ok(CVal("Unsigned", <<>>, r.v, FALSE, 0), r.pos))
    ELSE Fail("UnexpectedMarker", pos)

DoReadValue(bytes, pos) ==
    IF pos > Len(bytes) THEN Fail("EofOnMarker", pos)
    ELSE ValueAtMarker(bytes, bytes[pos], pos)

\* DateTime::from_timestamp(secs, nanos).unwrap_or_default()
FromTimestamp(secs, nanos) ==
    IF nanos < 1000000000 \/ (nanos < 2000000000 /\ secs % 60 = 59)
    THEN <<secs, nanos>>
    ELSE <<0, 0>>

NoInstruction == [op |-> "None"]

\* what a fetch returns: Ok(Some(i)), Ok(None) or Err(err); with the reader's
\* position and started flag afterwards
Fetched(i, pos, started) ==
    [k |-> "instr", i |-> i, pos |-> pos, started |-> started, err |-> ""]
FetchedEof(pos, started) ==
    [k |-> "eof", i |-> NoInstruction, pos |-> pos, started |-> started, err |-> ""]
FetchedErr(e, pos, started) ==
    [k |-> "err", i |-> NoInstruction, pos |-> pos, started |-> started, err |-> e]

\* the first position from pos on that holds byte b, or 0
RECURSIVE Find(_, _, _)
Find(bytes, pos, b) ==
    IF pos > Len(bytes) THEN 0
    ELSE IF bytes[pos] = b THEN pos
    ELSE Find(bytes, pos + 1, b)

\* the opcode byte at position at, if there is one
OpcodeAt(bytes, at, started) ==
    IF at > Len(bytes)
    THEN [eof |-> TRUE, byte |-> 0, pos |-> at, started |-> started]
    ELSE [eof |-> FALSE, byte |-> bytes[at], pos |-> at + 1, started |-> started]

\* the loop of a Load that has not started, having found Restart at j (or
\* nothing: j = 0)
OpcodeAfterRestart(bytes, j) ==
    IF j = 0
    THEN [eof |-> TRUE, byte |-> 0, pos |-> Len(bytes) + 1, started |-> FALSE]
    ELSE OpcodeAt(bytes, j + 1, TRUE)

\* a Load that never scans: every byte is taken as an opcode, started or not
TakeOpcodeUnscanned(bytes, pos, started) == OpcodeAt(bytes, pos, started)

\* Load::fetch_one_cached, the loop that takes the opcode byte
\* (storage.rs:279-292): while not started every byte is consumed, and the
\* byte 255 sets started and is consumed too; the byte after it is the opcode
TakeOpcode(bytes, pos, started) ==
    IF started
    THEN OpcodeAt(bytes, pos, TRUE)
    ELSE OpcodeAfterRestart(bytes, Find(bytes, pos, IdToByte("Restart")))

\* a payload whose NewSpan takes no parent 0 either
ReadPayloadStrict(bytes, id, pos) ==
    CASE id = "NewString" ->
           Try(DoReadStr(bytes, pos), LAMBDA s :
               Ok([op |-> "NewString", str |-> s.v], s.pos))
      [] id = "NewSpan" ->
           Try(ReadU64(bytes, pos), LAMBDA parent :
           Try(ReadU64(bytes, parent.pos), LAMBDA span :
           Try(DoReadCacheStr(bytes, span.pos), LAMBDA name :
               IF span.v = 0 \/ parent.v = 0 THEN Fail("ZeroSpan", name.pos)
               ELSE Ok([op |-> "NewSpan", parent |-> parent.v, span |-> span.v,
                        name |-> name.v], name.pos))))
      [] id = "NewRecord" ->
           Try(ReadU64(bytes, pos), LAMBDA span :
               IF span.v = 0 THEN Fail("ZeroSpan", span.pos)
               ELSE Ok([op |-> "NewRecord", span |-> span.v], span.pos))
      [] id = "StartEvent" ->
           Try(ReadU64(bytes, pos), LAMBDA time :
           Try(ReadU64(bytes, time.pos), LAMBDA time2 :
           Try(ReadU64(bytes, time2.pos), LAMBDA span :
           Try(DoReadCacheStr(bytes, span.pos), LAMBDA target :
           Try(ReadU64(bytes, target.pos), LAMBDA priority :
               Ok([op |-> "StartEvent",
                   time |-> FromTimestamp(time.v, time2.v),
                   span |-> span.v,
                   target |-> target.v,
                   priority |-> num_priority(priority.v)], priority.pos))))))
      [] id = "AddValue" ->
           Try(DoReadCacheStr(bytes, pos), LAMBDA name :
           Try(DoReadValue(bytes, name.pos), LAMBDA value :
               Ok([op |-> "AddValue", name |-> name.v, value |-> value.v],
                  value.pos)))
      [] id = "DeleteSpan" ->
           Try(ReadU64(bytes, pos), LAMBDA span :
               IF span.v = 0 THEN Fail("ZeroSpan", span.pos)
               ELSE Ok([op |-> "DeleteSpan", span |-> span.v], span.pos))
      [] OTHER -> Ok([op |-> id], pos)

\* Load::fetch_one_cached, the payload of one instruction (storage.rs:298-344)
ReadPayload(bytes, id, pos) ==
    CASE id = "NewString" ->
           Try(DoReadStr(bytes, pos), LAMBDA s :
               Ok([op |-> "NewString", str |-> s.v], s.pos))
      [] id = "NewSpan" ->
           Try(ReadU64(bytes, pos), LAMBDA parent :
           Try(ReadU64(bytes, parent.pos), LAMBDA span :
           Try(DoReadCacheStr(bytes, span.pos), LAMBDA name :
               IF span.v = 0 THEN Fail("ZeroSpan", name.pos)
               ELSE Ok([op |-> "NewSpan", parent |-> parent.v, span |-> span.v,
                        name |-> name.v], name.pos))))
      [] id = "NewRecord" ->
           Try(ReadU64(bytes, pos), LAMBDA span :
               IF span.v = 0 THEN Fail("ZeroSpan", span.pos)
               ELSE Ok([op |-> "NewRecord", span |-> span.v], span.pos))
      [] id = "StartEvent" ->
           Try(ReadU64(bytes, pos), LAMBDA time :
           Try(ReadU64(bytes, time.pos), LAMBDA time2 :
           Try(ReadU64(bytes, time2.pos), LAMBDA span :
           Try(DoReadCacheStr(bytes, span.pos), LAMBDA target :
           Try(ReadU64(bytes, target.pos), LAMBDA priority :
               Ok([op |-> "StartEvent",
                   time |-> FromTimestamp(time.v, time2.v),
                   span |-> span.v,
                   target |-> target.v,
                   priority |-> num_priority(priority.v)], priority.pos))))))
      [] id = "AddValue" ->
           Try(DoReadCacheStr(bytes, pos), LAMBDA name :
           Try(DoReadValue(bytes, name.pos), LAMBDA value :
               Ok([op |-> "AddValue", name |-> name.v, value |-> value.v],
                  value.pos)))
      [] id = "DeleteSpan" ->
           Try(ReadU64(bytes, pos), LAMBDA span :
               IF span.v = 0 THEN Fail("ZeroSpan", span.pos)
               ELSE Ok([op |-> "DeleteSpan", span |-> span.v], span.pos))
      [] OTHER -> Ok([op |-> id], pos)

\* the result of fetch_one_cached from the payload read
FetchedPayload(r, started) ==
    IF r.ok THEN Fetched(r.v, r.pos, started) ELSE FetchedErr(r.err, r.pos, started)

\* Load::fetch_one_cached from the opcode taken
DecodeOpcode(bytes, opcode) ==
    IF opcode.eof THEN FetchedEof(opcode.pos, opcode.started)
    ELSE IF ByteToId(opcode.byte) = "Err"
    THEN FetchedErr("BadInstruction", opcode.pos, opcode.started)
    ELSE FetchedPayload(ReadPayload(bytes, ByteToId(opcode.byte), opcode.pos),
                        opcode.started)

\* Load::fetch_one_cached
FetchOneCached(bytes, pos, started) ==
    DecodeOpcode(bytes, TakeOpcode(bytes, pos, started))

\* a check for Cached strings that passes over the values
HasCachedName(i) ==
    CASE i.op = "NewSpan" -> i.name.c
      [] i.op = "StartEvent" -> i.target.c
      [] i.op = "AddValue" -> i.name.c
      [] OTHER -> FALSE

\* the instruction carries a Cached string
HasCached(i) ==
    CASE i.op = "NewSpan" -> i.name.c
      [] i.op = "StartEvent" -> i.target.c
      [] i.op = "AddValue" -> i.name.c \/ i.value.c
      [] OTHER -> FALSE

\* Load::fetch_one, the match that unwraps the Present strings
Unwrapped(i) ==
    CASE i.op = "NewSpan" -> [i EXCEPT !.name = i.name.s]
      [] i.op = "StartEvent" -> [i EXCEPT !.target = i.target.s]
      [] i.op = "AddValue" ->
           [i EXCEPT !.name = i.name.s,
                     !.value = Val(i.value.t, i.value.s, i.value.n)]
      [] OTHER -> i

\* Load::fetch_one from what fetch_one_cached returned
UncachedView(r) ==
    IF r.k # "instr" THEN r
    ELSE IF r.i.op = "NewString" \/ HasCached(r.i)
    THEN FetchedErr("UnexpectedCached", r.pos, r.started)
    ELSE Fetched(Unwrapped(r.i), r.pos, r.started)

\* Load::fetch_one
FetchOne(bytes, pos, started) == UncachedView(FetchOneCached(bytes, pos, started))

(***************************************************************************)
(* StringUncache (string_cache.rs)                                         *)
(* A handler returns its new state, what it forwarded and whether it       *)
(* panicked.                                                               *)
(***************************************************************************)
\* StringUncache::uncache indexes strings[index]: out of bounds panics
UncacheOk(strings, string) == ~string.c \/ string.i < Len(strings)
uncache(strings, string) == IF string.c THEN strings[string.i + 1] ELSE string.s

\* StringUncache::uncache_value
uncache_value(strings, value) ==
    IF value.t = "String" \/ value.t = "Debug"
    THEN Val(value.t, uncache(strings, [c |-> value.c, s |-> value.s, i |-> value.i]), 0)
    ELSE Val(value.t, value.s, value.n)

\* StringUncache::handle
StringUncacheHandle(strings, instruction) ==
    LET op == instruction.op
        Forward(i) == [strings |-> strings, out |-> <<i>>, panic |-> FALSE]
        Panic == [strings |-> strings, out |-> <<>>, panic |-> TRUE]
    IN  CASE op = "NewString" ->
               [strings |-> Append(strings, instruction.str), out |-> <<>>,
                panic |-> FALSE]
          [] op = "NewSpan" ->
               IF UncacheOk(strings, instruction.name)
               THEN Forward([instruction EXCEPT
                                !.name = uncache(strings, instruction.name)])
               ELSE Panic
          [] op = "StartEvent" ->
               IF UncacheOk(strings, instruction.target)
               THEN Forward([instruction EXCEPT
                                !.target = uncache(strings, instruction.target)])
               ELSE Panic
          [] op = "AddValue" ->
               IF /\ UncacheOk(strings, instruction.name)
                  /\ UncacheOk(strings, [c |-> instruction.value.c,
                                         s |-> instruction.value.s,
                                         i |-> instruction.value.i])
               THEN Forward([instruction EXCEPT
                                !.name = uncache(strings, instruction.name),
                                !.value = uncache_value(strings, instruction.value)])
               ELSE Panic
          [] OTHER -> Forward(instruction)

(***************************************************************************)
(* Printer (printer.rs)                                                    *)
(* Option: <<>> is None, <<x>> is Some(x).                                 *)
(***************************************************************************)
RECURSIVE Digits(_)
Digits(n) == IF n < 10 THEN <<48 + n>> ELSE Digits(n \div 10) \o <<48 + (n % 10)>>

\* SpanRecords::lost: a placeholder named lost-span-{id}
LostSpan(id) ==
    [parent |-> 0,
     name |-> <<108, 111, 115, 116, 45, 115, 112, 97, 110, 45>> \o Digits(id),
     records |-> <<>>]

\* a get_span whose placeholder has no name
get_span_unnamed(span, id) ==
    IF id \in DOMAIN span THEN span[id]
    ELSE [parent |-> 0, name |-> <<>>, records |-> <<>>]

\* Printer::get_span
get_span(span, id) == IF id \in DOMAIN span THEN span[id] ELSE LostSpan(id)

\* Printer::span_iter / span_from_root: the chain root first. The recursion
\* has no end on a cycle of parents: depth counts the frames, and a chain
\* longer than the map can hold is a cycle (overflow: the stack runs out).
RECURSIVE span_from_root(_, _, _)
span_from_root(span, id, depth) ==
    LET records == get_span(span, id)
    IN  IF depth > Cardinality(DOMAIN span) + 1
        THEN [overflow |-> TRUE, chain |-> <<>>]
        ELSE IF records.parent # 0
             THEN LET up == span_from_root(span, records.parent, depth + 1)
                  IN  [up EXCEPT !.chain = Append(up.chain, records)]
             ELSE [overflow |-> FALSE, chain |-> <<records>>]

MapPut(f, k, v) == [x \in DOMAIN f \cup {k} |-> IF x = k THEN v ELSE f[x]]
MapDel(f, k) == [x \in DOMAIN f \ {k} |-> f[x]]
EmptyMap == [x \in {} |-> 0]

\* the texts of printer.rs
DATE_1970 == <<49, 57, 55, 48, 45, 48, 49, 45, 48, 49>>
TRACE_ == <<84, 82, 65, 67, 69>>
DEBUG_ == <<68, 69, 66, 85, 71>>
INFO_ == <<73, 78, 70, 79>>
WARN_ == <<87, 65, 82, 78>>
ERROR_ == <<69, 82, 82, 79, 82>>
TRUE_ == <<116, 114, 117, 101>>
FALSE_ == <<102, 97, 108, 115, 101>>
MESSAGE == <<109, 101, 115, 115, 97, 103, 101>>

\* a number in decimal, padded with zeros to the width
RECURSIVE Padded(_, _)
Padded(n, width) ==
    IF width = 0 THEN <<>> ELSE Padded(n \div 10, width - 1) \o <<48 + (n % 10)>>

\* the fraction of a second as chrono writes it: nothing, or 3, 6 or 9 digits
Fraction(nanos) ==
    IF nanos = 0 THEN <<>>
    ELSE IF nanos % 1000000 = 0 THEN <<46>> \o Padded(nanos \div 1000000, 3)
    ELSE IF nanos % 1000 = 0 THEN <<46>> \o Padded(nanos \div 1000, 6)
    ELSE <<46>> \o Padded(nanos, 9)

\* write!(line, "{:?}", self.time) for a time of 1970-01-01: the date, T, the
\* time of day, the fraction and Z; nanoseconds from 10^9 on are a leap second
TimeDebug(time) ==
    LET secs == time[1]
        leap == time[2] >= 1000000000
    IN  DATE_1970 \o <<84>>
            \o Padded(secs \div 3600, 2) \o <<58>>
            \o Padded((secs \div 60) % 60, 2) \o <<58>>
            \o Padded(IF leap THEN 60 ELSE secs % 60, 2)
            \o Fraction(IF leap THEN time[2] - 1000000000 ELSE time[2])
            \o <<90>>

\* a level_padded that pads nothing
level_unpadded(level) ==
    CASE level = "TRACE" -> TRACE_ [] level = "DEBUG" -> DEBUG_
      [] level = "INFO" -> INFO_ [] level = "WARN" -> WARN_
      [] level = "ERROR" -> ERROR_

\* NewEvent::level_padded
level_padded(level) ==
    CASE level = "TRACE" -> TRACE_
      [] level = "DEBUG" -> DEBUG_
      [] level = "INFO" -> <<32>> \o INFO_
      [] level = "WARN" -> <<32>> \o WARN_
      [] level = "ERROR" -> ERROR_

\* "{str:?}": the string in double quotes, with " and \ escaped and a line
\* feed written as \n
RECURSIVE Escaped(_)
Escaped(str) ==
    IF str = <<>> THEN <<>>
    ELSE (IF Head(str) \in {34, 92} THEN <<92, Head(str)>>
          ELSE IF Head(str) = 10 THEN <<92, 110>>
          ELSE <<Head(str)>>) \o Escaped(Tail(str))
StrDebug(str) == <<34>> \o Escaped(str) \o <<34>>

\* "{value}" of an i64
IntDisplay(n) == IF n < 0 THEN <<45>> \o Digits(-n) ELSE Digits(n)

\* "{value}" of an f64, for the floats of the model: 1.0 and 0.5
FloatDisplay(bits) ==
    CASE bits = <<63, 240, 0, 0, 0, 0, 0, 0>> -> <<49>>
      [] bits = <<63, 224, 0, 0, 0, 0, 0, 0>> -> <<48, 46, 53>>

\* "{char:02x}"
HexDigit(d) == IF d < 10 THEN 48 + d ELSE 87 + d
Hex02(char) == <<HexDigit(char \div 16), HexDigit(char % 16)>>

\* NewEvent::write_value
write_value(value) ==
    CASE value.t = "Debug" -> value.s
      [] value.t = "String" -> StrDebug(value.s)
      [] value.t = "Float" -> FloatDisplay(value.s)
      [] value.t = "Integer" -> IntDisplay(value.n)
      [] value.t = "Unsigned" -> Digits(value.n)
      [] value.t = "Bool" -> IF value.n = 1 THEN TRUE_ ELSE FALSE_
      [] value.t = "ByteArray" ->
           Flatten([k \in 1..Len(value.s) |-> Hex02(value.s[k])])

\* a write_record that leaves the name of every message field out
write_record_any_message(record, with_message) ==
    IF record.name = MESSAGE /\ with_message
    THEN write_value(record.value)
    ELSE record.name \o <<61>> \o write_value(record.value)

\* NewEvent::write_record, with no field style
write_record(record, with_message) ==
    IF record.name = MESSAGE /\ with_message /\ record.value.t = "Debug"
    THEN record.value.s
    ELSE record.name \o <<61>> \o write_value(record.value)

\* the loop over span.records of write_line: a space before all but the first
RECURSIVE WriteSpanRecords(_, _)
WriteSpanRecords(records, idx) ==
    IF idx > Len(records) THEN <<>>
    ELSE (IF idx > 1 THEN <<32>> ELSE <<>>)
             \o write_record(records[idx], FALSE)
             \o WriteSpanRecords(records, idx + 1)

\* the loop over spans of write_line: a space before the first, then
\* name{records}: for each
RECURSIVE WriteSpans(_, _)
WriteSpans(from_root, idx) ==
    IF idx > Len(from_root) THEN <<>>
    ELSE (IF idx = 1 THEN <<32>> ELSE <<>>)
             \o from_root[idx].name \o <<123>>
             \o WriteSpanRecords(from_root[idx].records, 1)
             \o <<125, 58>>
             \o WriteSpans(from_root, idx + 1)

\* the loop over self.records of write_line: a space before each
RECURSIVE WriteEventRecords(_)
WriteEventRecords(records) ==
    IF records = <<>> THEN <<>>
    ELSE <<32>> \o write_record(Head(records), TRUE)
             \o WriteEventRecords(Tail(records))

\* NewEvent::write_line with color false (no style has a prefix or suffix)
write_line(new_event, from_root) ==
    TimeDebug(new_event.time)
        \o <<32>> \o level_padded(new_event.priority)
        \o WriteSpans(from_root, 1)
        \o <<32>> \o new_event.target \o <<58>>
        \o WriteEventRecords(new_event.records)

\* NewEvent::to_line with color false
to_line(new_event, from_root) == write_line(new_event, from_root)

PrinterNew == [span |-> EmptyMap, new_records |-> <<>>, new_event |-> <<>>,
               out |-> <<>>]

\* a Printer that forgets its spans on Restart
PrinterHandleClears(p, instruction) ==
    LET op == instruction.op
        Keep(q) == [pr |-> q, panic |-> FALSE]
        Panic == [pr |-> p, panic |-> TRUE]
    IN  CASE op = "Restart" -> Keep([p EXCEPT !.span = EmptyMap])
          [] op = "NewSpan" ->
               IF p.new_records # <<>> THEN Panic
               ELSE Keep([p EXCEPT !.new_records =
                            <<[id |-> instruction.span,
                               rec |-> [parent |-> instruction.parent,
                                        name |-> instruction.name,
                                        records |-> <<>>]]>>])
          [] op = "FinishedSpan" \/ op = "FinishedRecord" ->
               IF p.new_records = <<>> THEN Panic
               ELSE LET new == p.new_records[1]
                    IN  Keep([p EXCEPT !.new_records = <<>>,
                                       !.span = MapPut(p.span, new.id, new.rec)])
          [] op = "NewRecord" ->
               IF p.new_records # <<>> THEN Panic
               ELSE Keep([p EXCEPT
                            !.new_records =
                                <<[id |-> instruction.span,
                                   rec |-> get_span(p.span, instruction.span)]>>,
                            !.span = MapDel(p.span, instruction.span)])
          [] op = "StartEvent" ->
               IF p.new_event # <<>> THEN Panic
               ELSE Keep([p EXCEPT !.new_event =
                            <<[time |-> instruction.time,
                               span |-> instruction.span,
                               target |-> instruction.target,
                               priority |-> instruction.priority,
                               records |-> <<>>]>>])
          [] op = "FinishedEvent" ->
               IF p.new_event = <<>> THEN Panic
               ELSE LET new_event == p.new_event[1]
                        found == IF new_event.span = 0
                                 THEN [overflow |-> FALSE, chain |-> <<>>]
                                 ELSE span_from_root(p.span, new_event.span, 1)
                    IN  IF found.overflow THEN Panic
                        ELSE Keep([p EXCEPT
                                     !.new_event = <<>>,
                                     !.out = Append(p.out,
                                         [event |-> new_event,
                                          spans |-> found.chain,
                                          line |-> to_line(new_event, found.chain)
                                                       \o <<10>>])])
          [] op = "AddValue" ->
               LET field_value == [name |-> instruction.name,
                                   value |-> instruction.value]
               IN  IF p.new_records # <<>> /\ p.new_event = <<>>
                   THEN Keep([p EXCEPT !.new_records[1].rec.records =
                                Append(p.new_records[1].rec.records, field_value)])
                   ELSE IF p.new_records = <<>> /\ p.new_event # <<>>
                   THEN Keep([p EXCEPT !.new_event[1].records =
                                Append(p.new_event[1].records, field_value)])
                   ELSE Panic
          [] op = "DeleteSpan" ->
               Keep([p EXCEPT !.span = MapDel(p.span, instruction.span)])

\* Printer::handle; panic is an assert!, an unwrap() of None, the panic!() of
\* AddValue, or the stack running out in span_iter
PrinterHandle(p, instruction) ==
    LET op == instruction.op
        Keep(q) == [pr |-> q, panic |-> FALSE]
        Panic == [pr |-> p, panic |-> TRUE]
    IN  CASE op = "Restart" -> Keep(p)
          [] op = "NewSpan" ->
               IF p.new_records # <<>> THEN Panic
               ELSE Keep([p EXCEPT !.new_records =
                            <<[id |-> instruction.span,
                               rec |-> [parent |-> instruction.parent,
                                        name |-> instruction.name,
                                        records |-> <<>>]]>>])
          [] op = "FinishedSpan" \/ op = "FinishedRecord" ->
               IF p.new_records = <<>> THEN Panic
               ELSE LET new == p.new_records[1]
                    IN  Keep([p EXCEPT !.new_records = <<>>,
                                       !.span = MapPut(p.span, new.id, new.rec)])
          [] op = "NewRecord" ->
               IF p.new_records # <<>> THEN Panic
               ELSE Keep([p EXCEPT
                            !.new_records =
                                <<[id |-> instruction.span,
                                   rec |-> get_span(p.span, instruction.span)]>>,
                            !.span = MapDel(p.span, instruction.span)])
          [] op = "StartEvent" ->
               IF p.new_event # <<>> THEN Panic
               ELSE Keep([p EXCEPT !.new_event =
                            <<[time |-> instruction.time,
                               span |-> instruction.span,
                               target |-> instruction.target,
                               priority |-> instruction.priority,
                               records |-> <<>>]>>])
          [] op = "FinishedEvent" ->
               IF p.new_event = <<>> THEN Panic
               ELSE LET new_event == p.new_event[1]
                        found == IF new_event.span = 0
                                 THEN [overflow |-> FALSE, chain |-> <<>>]
                                 ELSE span_from_root(p.span, new_event.span, 1)
                    IN  IF found.overflow THEN Panic
                        ELSE Keep([p EXCEPT
                                     !.new_event = <<>>,
                                     !.out = Append(p.out,
                                         [event |-> new_event,
                                          spans |-> found.chain,
                                          line |-> to_line(new_event, found.chain)
                                                       \o <<10>>])])
          [] op = "AddValue" ->
               LET field_value == [name |-> instruction.name,
                                   value |-> instruction.value]
               IN  IF p.new_records # <<>> /\ p.new_event = <<>>
                   THEN Keep([p EXCEPT !.new_records[1].rec.records =
                                Append(p.new_records[1].rec.records, field_value)])
                   ELSE IF p.new_records = <<>> /\ p.new_event # <<>>
                   THEN Keep([p EXCEPT !.new_event[1].records =
                                Append(p.new_event[1].records, field_value)])
                   ELSE Panic
          [] op = "DeleteSpan" ->
               Keep([p EXCEPT !.span = MapDel(p.span, instruction.span)])

(***************************************************************************)
(* Inputs of the model                                                     *)
(***************************************************************************)
StrA == <<97>>                          \* "a"
StrB == <<98>>                          \* "b"
StrName == <<110, 97, 109, 101>>        \* "name"
StrOuter == <<111, 117, 116, 101, 114>> \* "outer"
FloatOne == <<63, 240, 0, 0, 0, 0, 0, 0>>   \* the bits of 1.0

\* values of every variant, on both sides of the width borders of the encoder
ValuePool ==
    {Val("Debug", StrB, 0), Val("String", StrB, 0), Val("Float", FloatOne, 0)}
    \cup {Val("Integer", <<>>, n) : n \in {-33, 5, 200}}
    \cup {Val("Unsigned", <<>>, n) : n \in {5, 300}}
    \cup {Val("Bool", <<>>, 1), Val("ByteArray", <<1, 255>>, 0)}

\* instructions of the uncached view
InstructionPool ==
    {[op |-> "Restart"], [op |-> "FinishedSpan"], [op |-> "FinishedRecord"],
     [op |-> "FinishedEvent"]}
    \cup {[op |-> "NewSpan", parent |-> p, span |-> s, name |-> StrName] :
            p \in {0, 1}, s \in {1, 2}}
    \cup {[op |-> "NewRecord", span |-> 1], [op |-> "DeleteSpan", span |-> 1]}
    \cup {[op |-> "StartEvent", time |-> <<1, 2>>, span |-> s, target |-> StrA,
           priority |-> "INFO"] : s \in {0, 2}}
    \cup {[op |-> "AddValue", name |-> StrA, value |-> v] : v \in ValuePool}

\* instructions of the cached view that carry cache traffic
CachedPool ==
    {[op |-> "NewString", str |-> StrName],
     [op |-> "NewSpan", parent |-> 0, span |-> 1, name |-> Cached(0)],
     [op |-> "AddValue", name |-> Cached(0),
      value |-> CVal("String", <<>>, 0, TRUE, 1)]}

\* bytes that may precede a tape: two opcodes and the Restart opcode
GarbageBytes == {IdToByte("DeleteSpan"), IdToByte("FinishedEvent"), IdToByte("Restart")}

(***************************************************************************)
(* RestartableMachine (restart.rs)                                         *)
(***************************************************************************)
\* RestartableMachine::new
RestartableMachineNew == [span |-> EmptyMap, current_span |-> <<>>]

NewSpanOf(span, records) ==
    [op |-> "NewSpan", parent |-> records.parent, span |-> span,
     name |-> records.name]

AddValueOf(field_value) ==
    [op |-> "AddValue", name |-> field_value.name, value |-> field_value.value]

\* a replay that announces the span and leaves its fields out
SpanBatchBare(span, records) ==
    <<NewSpanOf(span, records), [op |-> "FinishedSpan"]>>

\* what the Restart arm forwards for one span of the table (restart.rs:35-45)
SpanBatch(span, records) ==
    <<NewSpanOf(span, records)>>
        \o [k \in 1..Len(records.records) |-> AddValueOf(records.records[k])]
        \o <<[op |-> "FinishedSpan"]>>

\* a replay that announces the spans without the fields they hold
RECURSIVE ReplayNames(_, _)
ReplayNames(span, order) ==
    IF order = <<>> THEN <<>>
    ELSE <<NewSpanOf(Head(order), span[Head(order)]), [op |-> "FinishedSpan"]>>
            \o ReplayNames(span, Tail(order))

\* the for loop over self.span.iter(), which visits the table in the order
\* the HashMap yields
RECURSIVE Replay(_, _)
Replay(span, order) ==
    IF order = <<>> THEN <<>>
    ELSE SpanBatch(Head(order), span[Head(order)]) \o Replay(span, Tail(order))

\* the orders in which a HashMap with these keys can be iterated
IterOrders(keys) ==
    {f \in [1..Cardinality(keys) -> keys] :
        \A a, b \in 1..Cardinality(keys) : a # b => f[a] # f[b]}

\* a current span that starts without the records the span has
CurrentFresh(span, records) ==
    <<[id |-> span, records |-> [records EXCEPT !.records = <<>>]]>>

\* self.current_span = Some((span, records))
Current(span, records) == <<[id |-> span, records |-> records]>>

\* a handle that keeps the fields of an event with the span the event is in
RestartableMachineHandleEventFields(m, instruction, order) ==
    CASE instruction.op = "Restart" ->
           [m |-> m, out |-> <<instruction>> \o Replay(m.span, order)]
      [] instruction.op = "NewSpan" ->
           [m |-> [m EXCEPT !.current_span =
                     Current(instruction.span,
                             [parent |-> instruction.parent,
                              name |-> instruction.name,
                              records |-> <<>>])],
            out |-> <<instruction>>]
      [] instruction.op \in {"FinishedSpan", "FinishedRecord"} ->
           [m |-> [span |-> MapPut(m.span, m.current_span[1].id,
                                   m.current_span[1].records),
                   current_span |-> <<>>],
            out |-> <<instruction>>]
      [] instruction.op = "NewRecord" ->
           [m |-> [span |-> MapDel(m.span, instruction.span),
                   current_span |-> Current(instruction.span,
                                            m.span[instruction.span])],
            out |-> <<instruction>>]
      [] instruction.op = "StartEvent" ->
           [m |-> IF instruction.span \in DOMAIN m.span /\ m.current_span = <<>>
                  THEN [span |-> MapDel(m.span, instruction.span),
                        current_span |-> Current(instruction.span,
                                                 m.span[instruction.span])]
                  ELSE m,
            out |-> <<instruction>>]
      [] instruction.op = "FinishedEvent" ->
           [m |-> IF m.current_span = <<>> THEN m
                  ELSE [span |-> MapPut(m.span, m.current_span[1].id,
                                        m.current_span[1].records),
                        current_span |-> <<>>],
            out |-> <<instruction>>]
      [] instruction.op = "AddValue" ->
           [m |-> IF m.current_span = <<>> THEN m
                  ELSE [m EXCEPT !.current_span[1].records.records =
                          Append(@, [name |-> instruction.name,
                                     value |-> instruction.value])],
            out |-> <<instruction>>]
      [] instruction.op = "DeleteSpan" ->
           [m |-> [m EXCEPT !.span = MapDel(@, instruction.span)],
            out |-> <<instruction>>]
      [] OTHER -> [m |-> m, out |-> <<instruction>>]

\* RestartableMachine::handle; the result is the machine afterwards and what
\* it handed to self.forward, in order
RestartableMachineHandle(m, instruction, order) ==
    CASE instruction.op = "Restart" ->
           [m |-> m, out |-> <<instruction>> \o Replay(m.span, order)]
      [] instruction.op = "NewSpan" ->
           [m |-> [m EXCEPT !.current_span =
                     Current(instruction.span,
                             [parent |-> instruction.parent,
                              name |-> instruction.name,
                              records |-> <<>>])],
            out |-> <<instruction>>]
      [] instruction.op \in {"FinishedSpan", "FinishedRecord"} ->
           [m |-> [span |-> MapPut(m.span, m.current_span[1].id,
                                   m.current_span[1].records),
                   current_span |-> <<>>],
            out |-> <<instruction>>]
      [] instruction.op = "NewRecord" ->
           [m |-> [span |-> MapDel(m.span, instruction.span),
                   current_span |-> Current(instruction.span,
                                            m.span[instruction.span])],
            out |-> <<instruction>>]
      [] instruction.op = "AddValue" ->
           [m |-> IF m.current_span = <<>> THEN m
                  ELSE [m EXCEPT !.current_span[1].records.records =
                          Append(@, [name |-> instruction.name,
                                     value |-> instruction.value])],
            out |-> <<instruction>>]
      [] instruction.op = "DeleteSpan" ->
           [m |-> [m EXCEPT !.span = MapDel(@, instruction.span)],
            out |-> <<instruction>>]
      [] OTHER -> [m |-> m, out |-> <<instruction>>]

\* handle called for each instruction of a sequence
RECURSIVE RestartableMachineRun(_, _, _, _)
RestartableMachineNext(r, rest, order, acc) ==
    RestartableMachineRun(r.m, rest, order, acc \o r.out)
\* where RestartableMachine::handle panics: the assert! of NewSpan and
\* NewRecord that no batch is open, the unwrap() of the span NewRecord takes
\* from the table, the unwrap() of the open batch in FinishedSpan and
\* FinishedRecord
RestartableMachinePanics(m, instruction) ==
    CASE instruction.op = "NewSpan" -> m.current_span # <<>>
      [] instruction.op = "NewRecord" ->
           m.current_span # <<>> \/ instruction.span \notin DOMAIN m.span
      [] instruction.op \in {"FinishedSpan", "FinishedRecord"} ->
           m.current_span = <<>>
      [] OTHER -> FALSE

RestartableMachineRun(m, instructions, order, acc) ==
    IF instructions = <<>> THEN [m |-> m, out |-> acc]
    ELSE RestartableMachineNext(
             RestartableMachineHandle(m, Head(instructions), order),
             Tail(instructions), order, acc)

(***************************************************************************)
(* StringCache (string_cache.rs)                                           *)
(***************************************************************************)
\* StringCache::new
StringCacheNew == EmptyMap

\* a policy that keeps every string shorter than 11 bytes a literal
small_under_11(id, len) == len < 11

\* the matches! of cache_string: by the index the string would get, the
\* lengths from which a reference is shorter than the string
small(id, len) ==
    ~ \/ (LeqU64(id, U64_FFFF) /\ len >= 4)
      \/ (~LeqU64(id, U64_FFFF) /\ LeqU64(id, U64_FFFFFF) /\ len >= 5)
      \/ (~LeqU64(id, U64_FFFFFF) /\ LeqU64(id, U64_FFFFFFFFFF) /\ len >= 7)
      \/ len >= 11

\* a cache_string that enters the string in the table without declaring it
cache_string_undeclared(strings, string) ==
    IF string \in DOMAIN strings
    THEN [strings |-> strings, out |-> <<>>, cs |-> Cached(strings[string])]
    ELSE IF small(U64(Cardinality(DOMAIN strings)), Len(string))
    THEN [strings |-> strings, out |-> <<>>, cs |-> Present(string)]
    ELSE [strings |-> MapPut(strings, string, Cardinality(DOMAIN strings)),
          out |-> <<>>,
          cs |-> Cached(Cardinality(DOMAIN strings))]

\* a cache_string that declares a string again when it is met again
cache_string_again(strings, string) ==
    IF small(U64(Cardinality(DOMAIN strings)), Len(string))
    THEN [strings |-> strings, out |-> <<>>, cs |-> Present(string)]
    ELSE [strings |-> MapPut(strings, string,
                             IF string \in DOMAIN strings THEN strings[string]
                             ELSE Cardinality(DOMAIN strings)),
          out |-> <<[op |-> "NewString", str |-> string]>>,
          cs |-> Cached(IF string \in DOMAIN strings THEN strings[string]
                        ELSE Cardinality(DOMAIN strings))]

\* StringCache::cache_string: the table afterwards, the NewString handed to
\* self.forward if any, and the CacheString returned
cache_string(strings, string) ==
    IF string \in DOMAIN strings
    THEN [strings |-> strings, out |-> <<>>, cs |-> Cached(strings[string])]
    ELSE IF small(U64(Cardinality(DOMAIN strings)), Len(string))
    THEN [strings |-> strings, out |-> <<>>, cs |-> Present(string)]
    ELSE [strings |-> MapPut(strings, string, Cardinality(DOMAIN strings)),
          out |-> <<[op |-> "NewString", str |-> string]>>,
          cs |-> Cached(Cardinality(DOMAIN strings))]

\* StringCache::cache_value
CachedStringValue(r) ==
    [strings |-> r.strings, out |-> r.out,
     value |-> CVal("String", r.cs.s, 0, r.cs.c, r.cs.i)]

cache_value(strings, value) ==
    IF value.t = "String"
    THEN CachedStringValue(cache_string(strings, value.s))
    ELSE [strings |-> strings, out |-> <<>>,
          value |-> CVal(value.t, value.s, value.n, FALSE, 0)]

\* the AddValue arm: the name is cached first, then the value
CachedAddValue(name, value) ==
    [strings |-> value.strings,
     out |-> name.out \o value.out
                \o <<[op |-> "AddValue", name |-> name.cs, value |-> value.value]>>]

CachedAddValueFrom(name, value) ==
    CachedAddValue(name, cache_value(name.strings, value))

\* a NewSpan arm that forwards the span before the NewString of its name
CachedNewSpanEarly(instruction, name) ==
    [strings |-> name.strings,
     out |-> <<[instruction EXCEPT !.name = name.cs]>> \o name.out]


CachedNewSpan(instruction, name) ==
    [strings |-> name.strings,
     out |-> name.out \o <<[instruction EXCEPT !.name = name.cs]>>]

CachedStartEvent(instruction, target) ==
    [strings |-> target.strings,
     out |-> target.out \o <<[instruction EXCEPT !.target = target.cs]>>]

\* StringCache::handle; the result is the table afterwards and what it
\* handed to self.forward, in order
StringCacheHandle(strings, instruction) ==
    CASE instruction.op = "Restart" ->
           [strings |-> EmptyMap, out |-> <<instruction>>]
      [] instruction.op = "NewString" ->
           [strings |-> MapPut(strings, instruction.str,
                               Cardinality(DOMAIN strings)),
            out |-> <<instruction>>]
      [] instruction.op = "NewSpan" ->
           CachedNewSpan(instruction, cache_string(strings, instruction.name))
      [] instruction.op = "StartEvent" ->
           CachedStartEvent(instruction, cache_string(strings, instruction.target))
      [] instruction.op = "AddValue" ->
           CachedAddValueFrom(cache_string(strings, instruction.name),
                              instruction.value)
      [] OTHER -> [strings |-> strings, out |-> <<instruction>>]

RECURSIVE StringCacheRun(_, _, _)
StringCacheNext(r, rest, acc) == StringCacheRun(r.strings, rest, acc \o r.out)
StringCacheRun(strings, instructions, acc) ==
    IF instructions = <<>> THEN [strings |-> strings, out |-> acc]
    ELSE StringCacheNext(StringCacheHandle(strings, Head(instructions)),
                         Tail(instructions), acc)

\* StringUncache::handle called for each instruction of a sequence; a panic
\* ends it
RECURSIVE StringUncacheRun(_, _, _)
StringUncacheNext(strings, r, rest, acc) ==
    IF r.panic THEN [strings |-> strings, out |-> acc, panic |-> TRUE]
    ELSE StringUncacheRun(r.strings, rest, acc \o r.out)
StringUncacheRun(strings, instructions, acc) ==
    IF instructions = <<>>
    THEN [strings |-> strings, out |-> acc, panic |-> FALSE]
    ELSE StringUncacheNext(strings,
                           StringUncacheHandle(strings, Head(instructions)),
                           Tail(instructions), acc)

(***************************************************************************)
(* Rotate (rotate.rs). The state is [file, named, path, path1]: a file is  *)
(* open, path1 is Some (the path is valid UTF-8), the bytes of the file at *)
(* path and of the one at path1. A call of the file system succeeds or     *)
(* fails: io says which of stream_position, rename, create succeed, and a  *)
(* write puts `written` bytes in the file before it fails, or all of them. *)
(***************************************************************************)
\* Rotate::new on a path that holds no file yet
RotateNewAt(named) ==
    [file |-> TRUE, named |-> named, path |-> <<>>, path1 |-> <<>>]
RotateNew == RotateNewAt(TRUE)

\* every call of the file system succeeds
IoOk == [position |-> TRUE, rename |-> TRUE, create |-> TRUE]
IoOutcomes == [position : BOOLEAN, rename : BOOLEAN, create : BOOLEAN]

\* file.stream_position() of the file opened for appending
stream_position(r) == Len(r.path)

\* the file system after self.file = None and the rename, if there is a path1
Renamed(r) ==
    IF r.named THEN [r EXCEPT !.file = FALSE, !.path = <<>>, !.path1 = r.path]
    ELSE [r EXCEPT !.file = FALSE]

\* a do_needs_restart that rotates from max_len on
do_needs_restart_early(r, io) ==
    IF ~r.file THEN [r |-> r, result |-> "Err"]
    ELSE IF ~io.position THEN [r |-> r, result |-> "Err"]
    ELSE IF stream_position(r) < MaxLen THEN [r |-> r, result |-> "Ok(false)"]
    ELSE IF r.named /\ ~io.rename
    THEN [r |-> [r EXCEPT !.file = FALSE], result |-> "Err"]
    ELSE IF ~io.create THEN [r |-> Renamed(r), result |-> "Err"]
    ELSE [r |-> [Renamed(r) EXCEPT !.file = TRUE, !.path = <<>>],
          result |-> "Ok(true)"]

\* a do_needs_restart that creates the file again when none is open
do_needs_restart_reopens(r, io) ==
    IF ~r.file /\ io.create
    THEN [r |-> [r EXCEPT !.file = TRUE, !.path = <<>>], result |-> "Ok(true)"]
    ELSE IF ~r.file THEN [r |-> r, result |-> "Err"]
    ELSE IF ~io.position THEN [r |-> r, result |-> "Err"]
    ELSE IF stream_position(r) <= MaxLen THEN [r |-> r, result |-> "Ok(false)"]
    ELSE IF r.named /\ ~io.rename
    THEN [r |-> [r EXCEPT !.file = FALSE], result |-> "Err"]
    ELSE IF ~io.create THEN [r |-> Renamed(r), result |-> "Err"]
    ELSE [r |-> [Renamed(r) EXCEPT !.file = TRUE, !.path = <<>>],
          result |-> "Ok(true)"]

\* Rotate::do_needs_restart: no file, or a call that fails, is an Err; up to
\* max_len nothing happens; past it the handle is dropped, the file renamed
\* to path1 if there is one, and a new, empty file created at path
do_needs_restart_io(r, io) ==
    IF ~r.file THEN [r |-> r, result |-> "Err"]
    ELSE IF ~io.position THEN [r |-> r, result |-> "Err"]
    ELSE IF stream_position(r) <= MaxLen THEN [r |-> r, result |-> "Ok(false)"]
    ELSE IF r.named /\ ~io.rename
    THEN [r |-> [r EXCEPT !.file = FALSE], result |-> "Err"]
    ELSE IF ~io.create THEN [r |-> Renamed(r), result |-> "Err"]
    ELSE [r |-> [Renamed(r) EXCEPT !.file = TRUE, !.path = <<>>],
          result |-> "Ok(true)"]

\* Rotate::needs_restart: do_needs_restart().unwrap_or_default()
needs_restart(r, io) ==
    [r |-> do_needs_restart_io(r, io).r,
     restart |-> do_needs_restart_io(r, io).result = "Ok(true)",
     returned |-> TRUE]

\* needs_restart when every call succeeds
do_needs_restart(r) == needs_restart(r, IoOk)

\* the bytes a write leaves in the file: all of them, or the first `written`
\* when it fails
Written(bytes, written) ==
    IF written >= Len(bytes) THEN bytes ELSE SubSeq(bytes, 1, written)

\* a handle that unwraps the result of the write
RotateHandleUnwrap(r, instruction, written) ==
    IF ~r.file THEN [r |-> r, returned |-> TRUE]
    ELSE [r |-> [r EXCEPT !.path = @ \o Written(DoHandleCached(instruction),
                                                 written)],
          returned |-> written >= Len(DoHandleCached(instruction))]

\* Rotate::handle for TapeMachine<CacheInstructionSet>: nothing without a
\* file; the result of the write is dropped
RotateHandleIo(r, instruction, written) ==
    IF ~r.file THEN [r |-> r, returned |-> TRUE]
    ELSE [r |-> [r EXCEPT !.path = @ \o Written(DoHandleCached(instruction),
                                                 written)],
          returned |-> TRUE]

\* Rotate::handle when the write succeeds
RotateHandle(r, instruction) ==
    RotateHandleIo(r, instruction, Len(DoHandleCached(instruction))).r

RECURSIVE RotateRun(_, _)
RotateRun(r, instructions) ==
    IF instructions = <<>> THEN r
    ELSE RotateRun(RotateHandle(r, Head(instructions)), Tail(instructions))

(***************************************************************************)
(* Codec and viewer: specification SpecCodec                               *)
(***************************************************************************)
\* Load::new
LoadNew == [pos |-> 1, started |-> FALSE]

\* Load::restart: started = false
LoadRestart(load) == [load EXCEPT !.started = FALSE]

\* StringUncache::new
StringUncacheNew == <<>>

\* Load::forward over the whole input with a fresh Load: every instruction
\* fetch_one returns goes to the machine; the first error ends the loop
RECURSIVE Forward(_, _, _, _)
ForwardFetched(bytes, r, acc) ==
    IF r.k = "eof" THEN [result |-> "ok", out |-> acc]
    ELSE IF r.k = "err" THEN [result |-> "err", out |-> acc]
    ELSE Forward(bytes, r.pos, r.started, Append(acc, r.i))
Forward(bytes, pos, started, acc) ==
    ForwardFetched(bytes, FetchOne(bytes, pos, started), acc)

InitReader ==
    /\ su = StringUncacheNew
    /\ pr = PrinterNew

InitCodec ==
    /\ phase = "store"
    /\ garbage = <<>>
    /\ cut = 0
    /\ tape = <<>>
    /\ stored = <<>>
    /\ ld = "none"
    /\ ld_out = <<>>
    /\ vw = [pos |-> LoadNew.pos, started |-> LoadNew.started, pc |-> "loop"]
    /\ vw_out = <<>>

\* bytes already in the file before the tape is written
WriteGarbage(b) ==
    /\ phase = "store"
    /\ tape = <<>>
    /\ Len(garbage) < MaxGarbage
    /\ garbage' = Append(garbage, b)
    /\ UNCHANGED <<phase, cut, tape, stored, ld, ld_out, vw, vw_out, su, pr>>
    /\ UNCHANGED <<writerVars, probe, sink, th, mach, inst>>

\* a tape segment begins with Restart (TapeMachineLogger::new), also the one a
\* new writer appends after the last one died
MayStore(op) ==
    /\ phase = "store"
    /\ Len(stored) < MaxStored
    /\ (stored = <<>> \/ cut > 0) => op = "Restart"

\* Store::handle for TapeMachine<InstructionSet>
StoreUncached(i) ==
    /\ MayStore(i.op)
    /\ tape' = tape \o DoHandle(i)
    /\ stored' = Append(stored, [cached |-> FALSE, i |-> i])
    /\ cut' = 0
    /\ UNCHANGED <<phase, garbage, ld, ld_out, vw, vw_out, su, pr>>
    /\ UNCHANGED <<writerVars, probe, sink, th, mach, inst>>

\* Store::handle for TapeMachine<CacheInstructionSet>
StoreCached(i) ==
    /\ MayStore(i.op)
    /\ tape' = tape \o DoHandleCached(i)
    /\ stored' = Append(stored, [cached |-> TRUE, i |-> i])
    /\ cut' = 0
    /\ UNCHANGED <<phase, garbage, ld, ld_out, vw, vw_out, su, pr>>
    /\ UNCHANGED <<writerVars, probe, sink, th, mach, inst>>

\* the writer dies inside the write of its last instruction: k bytes are lost
Truncate(k) ==
    /\ phase = "store"
    /\ stored # <<>>
    /\ cut = 0
    /\ LET last == stored[Len(stored)]
           bytes == IF last.cached THEN DoHandleCached(last.i) ELSE DoHandle(last.i)
       IN  k < Len(bytes)
    /\ tape' = Slice(tape, 1, Len(tape) - k)
    /\ cut' = k
    /\ UNCHANGED <<phase, garbage, stored, ld, ld_out, vw, vw_out, su, pr>>
    /\ UNCHANGED <<writerVars, probe, sink, th, mach, inst>>

\* the file is closed and handed to the readers
Close ==
    /\ phase = "store"
    /\ stored # <<>>
    /\ phase' = "load"
    /\ UNCHANGED <<garbage, cut, tape, stored, ld, ld_out, vw, vw_out, su, pr>>
    /\ UNCHANGED <<writerVars, probe, sink, th, mach, inst>>

\* Load::new(file).forward(machine)
LoadForward ==
    /\ phase = "load"
    /\ ld' = Forward(garbage \o tape, LoadNew.pos, LoadNew.started, <<>>).result
    /\ ld_out' = Forward(garbage \o tape, LoadNew.pos, LoadNew.started, <<>>).out
    /\ phase' = "view"
    /\ UNCHANGED <<garbage, cut, tape, stored, vw, vw_out, su, pr>>
    /\ UNCHANGED <<writerVars, probe, sink, th, mach, inst>>

\* StringUncache::handle and then Printer::handle of what it forwards
Downstream(strings, p, u) ==
    IF u.panic THEN [strings |-> strings, pr |-> p, panic |-> TRUE]
    ELSE IF u.out = <<>> THEN [strings |-> u.strings, pr |-> p, panic |-> FALSE]
    ELSE [strings |-> u.strings,
          pr |-> PrinterHandle(p, u.out[1]).pr,
          panic |-> PrinterHandle(p, u.out[1]).panic]

\* print_log, one turn of the loop, from what fetch_one_cached returned: an
\* error calls restart() and continues; an instruction goes to StringUncache
\* and from there to Printer
ViewerTurn(r, d) ==
    /\ vw_out' = Append(vw_out, [k |-> r.k, i |-> r.i, err |-> r.err])
    /\ vw' = [pos |-> r.pos,
              started |-> IF r.k = "err"
                          THEN LoadRestart([pos |-> r.pos, started |-> r.started]).started
                          ELSE r.started,
              pc |-> IF r.k = "eof" THEN "done"
                     ELSE IF r.k = "instr" /\ d.panic THEN "panicked"
                     ELSE "loop"]
    /\ su' = IF r.k = "instr" /\ ~d.panic THEN d.strings ELSE su
    /\ pr' = IF r.k = "instr" /\ ~d.panic THEN d.pr ELSE pr

ViewerFetched(r) ==
    ViewerTurn(r, IF r.k = "instr"
                  THEN Downstream(su, pr, StringUncacheHandle(su, r.i))
                  ELSE [strings |-> su, pr |-> pr, panic |-> FALSE])

ViewerStep ==
    /\ phase = "view"
    /\ vw.pc = "loop"
    /\ ViewerFetched(FetchOneCached(garbage \o tape, vw.pos, vw.started))
    /\ UNCHANGED <<phase, garbage, cut, tape, stored, ld, ld_out>>
    /\ UNCHANGED <<writerVars, probe, sink, th, mach, inst>>

CodecNext ==
    \/ \E b \in GarbageBytes : WriteGarbage(b)
    \/ \E i \in InstructionPool : StoreUncached(i)
    \/ \E i \in CachedPool : StoreCached(i)
    \/ \E k \in 1..MaxCut : Truncate(k)
    \/ Close
    \/ LoadForward
    \/ ViewerStep

(***************************************************************************)
(* TapeMachineLogger (tape.rs) over the chain of rotate_logger (lib.rs):   *)
(*   RestartableMachine -> StringCache -> Rotate                           *)
(* with a StringUncache reading what StringCache hands to Rotate.          *)
(* Specification Spec: one action is one callback, made under the mutex.   *)
(***************************************************************************)
\* fields a callback records
FieldPool ==
    {[name |-> StrA, value |-> Val("Integer", <<>>, 5)],
     [name |-> StrName, value |-> Val("String", StrOuter, 0)]}

SeqsUpTo(S, n) == UNION {[1..k -> S] : k \in 0..n}

AttrsPool == SeqsUpTo(FieldPool, MaxFields)

\* span names and event targets: below and from the length that is cached
NamePool == {StrA, StrName}
TargetPool == {StrName, StrOuter}

\* a visitor that records nothing
AddValuesNone(attrs) == <<>>

\* VisitMachine: one AddValue per field visited
AddValues(attrs) == [k \in 1..Len(attrs) |-> AddValueOf(attrs[k])]

\* to_le_bytes of an i128 or u128: 16 bytes, a negative number in two's
\* complement
ToLeBytes128(n) ==
    IF n >= 0 THEN LE(n, 16)
    ELSE [k \in 1..16 |-> 255 - LE(-n - 1, 16)[k]]

\* Visit for VisitMachine: the value of the AddValue each method hands over.
\* A value that is recorded as Debug or as an error comes with the text its
\* Debug or Display implementation writes.
record_f64(value) == Val("Float", value, 0)
record_i64(value) == Val("Integer", <<>>, value)
record_u64(value) == Val("Unsigned", <<>>, value)
record_bool(value) == Val("Bool", <<>>, IF value THEN 1 ELSE 0)
record_str(value) == Val("String", value, 0)
record_bytes(value) == Val("ByteArray", value, 0)
record_debug(value) == record_str(value)
record_i128(value) == record_bytes(ToLeBytes128(value))
record_u128(value) == record_bytes(ToLeBytes128(value))
record_error(value) == record_str(value)

\* the method of Visit that tracing calls for a value of the type; the value
\* is its bytes or text s, its number n or its truth b
Visit(recorded) ==
    CASE recorded.type = "f64" -> record_f64(recorded.s)
      [] recorded.type = "i64" -> record_i64(recorded.n)
      [] recorded.type = "u64" -> record_u64(recorded.n)
      [] recorded.type = "bool" -> record_bool(recorded.b)
      [] recorded.type = "str" -> record_str(recorded.s)
      [] recorded.type = "bytes" -> record_bytes(recorded.s)
      [] recorded.type = "debug" -> record_debug(recorded.s)
      [] recorded.type = "i128" -> record_i128(recorded.n)
      [] recorded.type = "u128" -> record_u128(recorded.n)
      [] recorded.type = "error" -> record_error(recorded.s)

\* the instructions of seq from its last Restart on
RECURSIVE SinceRestart(_)
SinceRestart(seq) ==
    IF seq = <<>> THEN <<>>
    ELSE IF seq[Len(seq)].op = "Restart" THEN <<seq[Len(seq)]>>
    ELSE IF \E k \in 1..Len(seq) : seq[k].op = "Restart"
    THEN SinceRestart(Slice(seq, 1, Len(seq) - 1)) \o <<seq[Len(seq)]>>
    ELSE seq

\* TapeMachineLoggerInner::restart: Restart goes down the chain
LoggerRestart == <<[op |-> "Restart"]>>

\* the chain has handled the instructions fe of one callback
Deliver(need, fe, r, s, u, rotate) ==
    /\ calls' = calls + 1
    /\ rotated' = need
    /\ fe_batch' = fe
    /\ rm' = r.m
    /\ rm_batch' = r.out
    /\ sc' = s.strings
    /\ sc_batch' = s.out
    /\ rot' = RotateRun(rotate, s.out)
    /\ sink_seg' = SinceRestart(sink_seg \o s.out)
    /\ su' = u.strings
    /\ su_batch' = u.out
    /\ UNCHANGED <<pr, phase, garbage, cut, tape, stored, ld, ld_out, vw, vw_out,
                   probe, sink, th, mach, inst>>

ThroughStringCache(need, fe, r, s, rotate) ==
    Deliver(need, fe, r, s, StringUncacheRun(su, s.out, <<>>), rotate)

ThroughRestartable(need, fe, r, rotate) ==
    ThroughStringCache(need, fe, r, StringCacheRun(sc, r.out, <<>>), rotate)

ThroughChain(need, fe, order, rotate) ==
    ThroughRestartable(need, fe, RestartableMachineRun(rm, fe, order, <<>>), rotate)

\* a machine() that rotates the file and does not call restart()
MachineAskedNoRestart(n, batch, order) ==
    ThroughChain(n.restart, batch, order, n.r)

\* TapeMachineLogger::machine and the handle calls of the callback after it:
\* needs_restart() is asked first, and if it says so restart() runs before
\* the instructions of the callback
MachineAsked(n, batch, order) ==
    ThroughChain(n.restart,
                 IF n.restart THEN LoggerRestart \o batch ELSE batch,
                 order, n.r)

Machine(batch, order) == MachineAsked(do_needs_restart(rot), batch, order)

\* Layer::on_new_span
on_new_span(id, parent, name, attrs, order) ==
    /\ calls < MaxCalls
    /\ id \notin DOMAIN spans
    /\ parent = 0 \/ parent \in DOMAIN spans
    /\ spans' = MapPut(spans, id,
                       [parent |-> parent, name |-> name, records |-> attrs])
    /\ Machine(<<[op |-> "NewSpan", parent |-> parent, span |-> id,
                  name |-> name]>>
                    \o AddValues(attrs) \o <<[op |-> "FinishedSpan"]>>,
               order)

\* Layer::on_record
on_record(id, values, order) ==
    /\ calls < MaxCalls
    /\ id \in DOMAIN spans
    /\ spans' = [spans EXCEPT ![id].records = @ \o values]
    /\ Machine(<<[op |-> "NewRecord", span |-> id]>>
                    \o AddValues(values) \o <<[op |-> "FinishedRecord"]>>,
               order)

\* Layer::on_event
on_event(span, target, attrs, order) ==
    /\ calls < MaxCalls
    /\ span = 0 \/ span \in DOMAIN spans
    /\ spans' = spans
    /\ Machine(<<[op |-> "StartEvent", time |-> <<1, 2>>, span |-> span,
                  target |-> target, priority |-> "INFO"]>>
                    \o AddValues(attrs) \o <<[op |-> "FinishedEvent"]>>,
               order)

\* Layer::on_close
on_close(id, order) ==
    /\ calls < MaxCalls
    /\ id \in DOMAIN spans
    /\ spans' = MapDel(spans, id)
    /\ Machine(<<[op |-> "DeleteSpan", span |-> id]>>, order)

\* rotate_logger: TapeMachineLogger::new hands Restart to the new chain
InitWriterAt(named) ==
    /\ spans = EmptyMap
    /\ calls = 0
    /\ rotated = FALSE
    /\ fe_batch = <<[op |-> "Restart"]>>
    /\ rm = RestartableMachineNew
    /\ rm_batch = <<[op |-> "Restart"]>>
    /\ sc = StringCacheNew
    /\ sc_batch = <<[op |-> "Restart"]>>
    /\ rot = RotateRun(RotateNewAt(named), <<[op |-> "Restart"]>>)
    /\ sink_seg = <<[op |-> "Restart"]>>
    /\ su_batch = <<[op |-> "Restart"]>>

\* the path of the log is valid UTF-8
InitWriter == InitWriterAt(TRUE)

\* no conversion is under study in the pipeline's specifications
ProbeIdle == [f |-> "none", x |-> <<>>, y |-> <<>>, done |-> TRUE]

\* no call has been made on the chain
IoIdle ==
    [op |-> "none", rot |-> RotateNew, rm |-> RestartableMachineNew,
     sc |-> StringCacheNew, i |-> NoInstruction, order |-> <<>>, o |-> IoOk,
     written |-> 0, after |-> RotateNew, ret |-> FALSE, returned |-> TRUE]

NumThreads == 2     \* application threads
Threads == 1..NumThreads

\* no thread is in a callback and the mutex is free
ThreadsIdle ==
    [lock |-> 0, pc |-> [t \in Threads |-> "idle"],
     todo |-> [t \in Threads |-> <<>>], span |-> [t \in Threads |-> 0],
     call |-> [t \in Threads |-> 0], log |-> <<>>]

NumPaths == 2       \* paths a log file is installed at

\* no machine is fed on its own, no logger is installed
MachIdle ==
    [who |-> "none", n |-> 0, last |-> <<>>, m |-> <<>>, prev |-> <<>>,
     panic |-> FALSE, g |-> <<>>]
InstIdle == [installed |-> 0, calls |-> <<>>, files |-> [p \in 1..NumPaths |-> <<>>]]

Init ==
    /\ InitWriter /\ InitReader /\ InitCodec
    /\ probe = ProbeIdle /\ sink = IoIdle /\ th = ThreadsIdle
    /\ mach = MachIdle /\ inst = InstIdle

Next ==
    \/ \E id \in 1..MaxSpanId, parent \in 0..MaxSpanId, name \in NamePool,
          attrs \in AttrsPool, order \in IterOrders(DOMAIN rm.span) :
            on_new_span(id, parent, name, attrs, order)
    \/ \E id \in 1..MaxSpanId, values \in AttrsPool \ {<<>>},
          order \in IterOrders(DOMAIN rm.span) :
            on_record(id, values, order)
    \/ \E span \in 0..MaxSpanId, target \in TargetPool, attrs \in AttrsPool,
          order \in IterOrders(DOMAIN rm.span) :
            on_event(span, target, attrs, order)
    \/ \E id \in 1..MaxSpanId, order \in IterOrders(DOMAIN rm.span) :
            on_close(id, order)

Spec == Init /\ [][Next]_vars

SpecCodec == Init /\ [][CodecNext]_vars

(***************************************************************************)
(* The conversions taken alone: an input is drawn, the function is applied *)
(***************************************************************************)
Bytes == 0..255
InstructionIds ==
    {"Restart", "NewString", "NewSpan", "FinishedSpan", "NewRecord",
     "FinishedRecord", "StartEvent", "FinishedEvent", "AddValue", "DeleteSpan"}
Levels == {"TRACE", "DEBUG", "INFO", "WARN", "ERROR"}

\* u64 values around every boundary of the index ranges, the largest
\* included; the two most significant bytes are taken equal
EdgeBytes == {0, 1, 255}
U64Pool == {b \in [1..8 -> EdgeBytes] : b[7] = b[8]}

\* the data bytes a form holds, the ignored first byte of U64 included
FormLen(k) ==
    CASE k = "U16" -> 2 [] k = "U24" -> 3 [] k = "U40" -> 5 [] k = "U64" -> 9
CacheIndexPool ==
    UNION {{[k |-> form, data |-> d] : d \in [1..FormLen(form) -> EdgeBytes]} :
           form \in {"U16", "U24", "U40"}}
    \cup {[k |-> "U64", data |-> <<t>> \o d] : t \in {0, 7}, d \in U64Pool}

\* string lengths on both sides of 4, 5, 7 and 11
LenPool == 0..12
StrOfLen(n) == [k \in 1..n |-> 97 + (n % 26)]
TablePool ==
    {EmptyMap, MapPut(EmptyMap, StrOfLen(12), 0),
     MapPut(MapPut(EmptyMap, StrOfLen(12), 0), StrOfLen(4), 1)}

\* u64 numbers read where a level is expected
NumPool == 0..255 \cup {65536, 2147483647}

\* values on both sides of every change of form of write_sint and write_uint
StoredValuePool ==
    ValuePool
    \cup {Val("Debug", StrName, 0), Val("String", <<>>, 0)}
    \cup {Val("Integer", <<>>, n) :
             n \in {-32769, -32768, -129, -128, -32, -1, 0, 127, 128, 255, 256,
                    65535, 65536}}
    \cup {Val("Unsigned", <<>>, n) : n \in {0, 127, 128, 255, 256, 65535, 65536}}

\* the field that carries the value
FieldOf(value) == [op |-> "AddValue", name |-> StrA, value |-> value]

\* Store::handle of Restart and of the field, through the entry point for
\* CacheInstruction (every string Present) or the one for Instruction
StoredTape(cached, value) ==
    DoHandle([op |-> "Restart"])
        \o (IF cached
            THEN DoHandleCached(
                     [op |-> "AddValue", name |-> Present(StrA),
                      value |-> CVal(value.t, value.s, value.n, FALSE, 0)])
            ELSE DoHandle(FieldOf(value)))

\* what the printer is given to render
StrT == <<116>>                         \* "t"
StrX == <<120>>                         \* "x"
StrInner == <<105, 110, 110, 101, 114>> \* "inner"
StrQuote == <<97, 34, 92>>              \* a, a double quote, a backslash
TimePool == {<<0, 0>>, <<1, 2>>, <<3661, 500000000>>, <<86399, 1999999000>>}
RenderValuePool ==
    ValuePool \cup {Val("Bool", <<>>, 0), Val("String", StrQuote, 0),
                    Val("Debug", StrX, 0)}
RenderFieldPool ==
    {[name |-> n, value |-> v] : n \in {StrA, MESSAGE}, v \in RenderValuePool}
EventFieldPool ==
    {[name |-> MESSAGE, value |-> Val("Debug", StrX, 0)],
     [name |-> MESSAGE, value |-> Val("String", StrB, 0)],
     [name |-> StrA, value |-> Val("Debug", StrB, 0)],
     [name |-> StrA, value |-> Val("Integer", <<>>, -33)]}
SpanRecordsPool ==
    {[parent |-> 0, name |-> n, records |-> r] :
        n \in {StrOuter, StrInner},
        r \in {<<>>,
               <<[name |-> StrA, value |-> Val("Debug", StrB, 0)]>>,
               <<[name |-> MESSAGE, value |-> Val("Debug", StrB, 0)]>>,
               <<[name |-> MESSAGE, value |-> Val("String", StrA, 0)],
                 [name |-> StrA, value |-> Val("Debug", StrB, 0)]>>}}
NewEventOf(time, priority, records) ==
    [time |-> time, span |-> 0, target |-> StrT, priority |-> priority,
     records |-> records]
\* every level at every time; span chains of up to two with up to one field
\* of the event; two fields of the event
ToLinePool ==
    {[new_event |-> NewEventOf(time, level, <<>>), from_root |-> <<>>] :
        time \in TimePool, level \in Levels}
    \cup {[new_event |-> NewEventOf(<<0, 0>>, "INFO", records),
           from_root |-> chain] :
            records \in SeqsUpTo(EventFieldPool, 1),
            chain \in SeqsUpTo(SpanRecordsPool, 2)}
    \cup {[new_event |-> NewEventOf(<<0, 0>>, "WARN", records),
           from_root |-> <<>>] : records \in [1..2 -> EventFieldPool]}

\* instructions on a tape: span ids 0 and not 0, strings Present and Cached
FetchPool ==
    {[op |-> "Restart"], [op |-> "FinishedSpan"], [op |-> "FinishedRecord"],
     [op |-> "FinishedEvent"], [op |-> "NewString", str |-> StrName]}
    \cup {[op |-> "NewSpan", parent |-> p, span |-> s, name |-> n] :
            p \in {0, 1}, s \in {0, 1, 300},
            n \in {Present(StrA), Cached(0), Cached(70000)}}
    \cup {[op |-> o, span |-> s] : o \in {"NewRecord", "DeleteSpan"}, s \in {0, 2}}
    \cup {[op |-> "StartEvent", time |-> <<1, 2>>, span |-> s, target |-> n,
           priority |-> "INFO"] : s \in {0, 1}, n \in {Present(StrA), Cached(1)}}
    \cup {[op |-> "AddValue", name |-> n, value |-> v] :
            n \in {Present(StrA), Cached(0)},
            v \in {CVal("Debug", StrB, 0, FALSE, 0), CVal("Debug", <<>>, 0, TRUE, 1),
                   CVal("String", StrB, 0, FALSE, 0), CVal("String", <<>>, 0, TRUE, 1),
                   CVal("Integer", <<>>, 5, FALSE, 0),
                   CVal("Unsigned", <<>>, 300, FALSE, 0),
                   CVal("Float", FloatOne, 0, FALSE, 0),
                   CVal("ByteArray", <<1, 255>>, 0, FALSE, 0)}}

\* values a callback records, by the type tracing sees
Recorded(type, s, n, b) == [type |-> type, s |-> s, n |-> n, b |-> b]
RecordedPool ==
    {Recorded("f64", FloatOne, 0, FALSE), Recorded("bytes", <<1, 255>>, 0, FALSE)}
    \cup {Recorded("i64", <<>>, n, FALSE) : n \in {-33, 5}}
    \cup {Recorded("u64", <<>>, n, FALSE) : n \in {5, 300}}
    \cup {Recorded("bool", <<>>, 0, b) : b \in BOOLEAN}
    \cup {Recorded(t, s, 0, FALSE) : t \in {"str", "debug", "error"},
                                     s \in {StrB, StrOuter}}
    \cup {Recorded("i128", <<>>, n, FALSE) : n \in {-258, -1, 0, 258}}
    \cup {Recorded("u128", <<>>, n, FALSE) : n \in {0, 258}}

Draw(f, x) == [f |-> f, x |-> x, y |-> <<>>, done |-> FALSE]
Applied(y) == [probe EXCEPT !.y = y, !.done = TRUE]

ProbeInputs ==
    {Draw("InstructionId::try_from", b) : b \in Bytes}
    \cup {Draw("u8::from", id) : id \in InstructionIds}
    \cup {Draw("fetch_one_cached", b) : b \in Bytes}
    \cup {Draw("CacheIndex::from", i) : i \in U64Pool}
    \cup {Draw("CacheIndex::read", ci) : ci \in CacheIndexPool}
    \cup {Draw("small", [id |-> i, len |-> n]) : i \in U64Pool, n \in LenPool}
    \cup {Draw("cache_string", [strings |-> t, string |-> StrOfLen(n)]) :
             t \in TablePool, n \in LenPool}
    \cup {Draw("store_load", [cached |-> c, value |-> v]) :
             c \in BOOLEAN, v \in StoredValuePool}
    \cup {Draw("priority_num", level) : level \in Levels}
    \cup {Draw("num_priority", n) : n \in NumPool}
    \cup {Draw("to_line", x) : x \in ToLinePool}
    \cup {Draw("Visit", x) : x \in RecordedPool}
    \cup {Draw("fetch_one", i) : i \in FetchPool}
    \cup {Draw("write_record", [record |-> r, with_message |-> w]) :
             r \in RenderFieldPool, w \in BOOLEAN}

InitPure ==
    /\ InitWriter /\ InitReader /\ InitCodec
    /\ probe \in ProbeInputs
    /\ sink = IoIdle
    /\ th = ThreadsIdle
    /\ mach = MachIdle /\ inst = InstIdle

Pending(f) == probe.f = f /\ ~probe.done

\* CacheIndex::write into a buffer and CacheIndex::read from it
CacheIndexReadBack(ci) == CacheIndexRead(CacheIndexWrite(ci), 1)
ReadBackLe(r) == IF r.ok THEN CacheIndexToLe(r.v) ELSE <<>>

ApplyTryFrom ==
    /\ Pending("InstructionId::try_from")
    /\ probe' = Applied(ByteToId(probe.x))
    /\ UNCHANGED <<writerVars, codecVars, su, pr, sink, th, mach, inst>>

ApplyIntoU8 ==
    /\ Pending("u8::from")
    /\ probe' = Applied(IdToByte(probe.x))
    /\ UNCHANGED <<writerVars, codecVars, su, pr, sink, th, mach, inst>>

\* a started Load fetches from a tape whose next byte is x
ApplyFetchOpcode ==
    /\ Pending("fetch_one_cached")
    /\ probe' = Applied(FetchOneCached(<<probe.x>>, 1, TRUE))
    /\ UNCHANGED <<writerVars, codecVars, su, pr, sink, th, mach, inst>>

ApplyCacheIndexFrom ==
    /\ Pending("CacheIndex::from")
    /\ probe' = Applied([ci |-> CacheIndexFromLe(probe.x),
                         wire |-> CacheIndexWrite(CacheIndexFromLe(probe.x)),
                         back |-> ReadBackLe(CacheIndexReadBack(
                                                 CacheIndexFromLe(probe.x)))])
    /\ UNCHANGED <<writerVars, codecVars, su, pr, sink, th, mach, inst>>

ApplyCacheIndexRead ==
    /\ Pending("CacheIndex::read")
    /\ probe' = Applied(ReadBackLe(CacheIndexReadBack(probe.x)))
    /\ UNCHANGED <<writerVars, codecVars, su, pr, sink, th, mach, inst>>

ApplySmall ==
    /\ Pending("small")
    /\ probe' = Applied(small(probe.x.id, probe.x.len))
    /\ UNCHANGED <<writerVars, codecVars, su, pr, sink, th, mach, inst>>

ApplyCacheString ==
    /\ Pending("cache_string")
    /\ probe' = Applied(cache_string(probe.x.strings, probe.x.string))
    /\ UNCHANGED <<writerVars, codecVars, su, pr, sink, th, mach, inst>>

\* a fresh Load reads what Store wrote
ApplyStoreLoad ==
    /\ Pending("store_load")
    /\ probe' = Applied(Forward(StoredTape(probe.x.cached, probe.x.value),
                                LoadNew.pos, LoadNew.started, <<>>))
    /\ UNCHANGED <<writerVars, codecVars, su, pr, sink, th, mach, inst>>

ApplyPriorityNum ==
    /\ Pending("priority_num")
    /\ probe' = Applied(priority_num(probe.x))
    /\ UNCHANGED <<writerVars, codecVars, su, pr, sink, th, mach, inst>>

ApplyNumPriority ==
    /\ Pending("num_priority")
    /\ probe' = Applied(num_priority(probe.x))
    /\ UNCHANGED <<writerVars, codecVars, su, pr, sink, th, mach, inst>>

\* a started Load reads the instruction as Store wrote it, through
\* fetch_one_cached and through fetch_one
ApplyFetchOne ==
    /\ Pending("fetch_one")
    /\ probe' = Applied([tape |-> DoHandleCached(probe.x),
                         cached |-> FetchOneCached(DoHandleCached(probe.x), 1, TRUE),
                         plain |-> FetchOne(DoHandleCached(probe.x), 1, TRUE)])
    /\ UNCHANGED <<writerVars, codecVars, su, pr, sink, th, mach, inst>>

ApplyVisit ==
    /\ Pending("Visit")
    /\ probe' = Applied(Visit(probe.x))
    /\ UNCHANGED <<writerVars, codecVars, su, pr, sink, th, mach, inst>>

ApplyToLine ==
    /\ Pending("to_line")
    /\ probe' = Applied(to_line(probe.x.new_event, probe.x.from_root))
    /\ UNCHANGED <<writerVars, codecVars, su, pr, sink, th, mach, inst>>

ApplyWriteRecord ==
    /\ Pending("write_record")
    /\ probe' = Applied(write_record(probe.x.record, probe.x.with_message))
    /\ UNCHANGED <<writerVars, codecVars, su, pr, sink, th, mach, inst>>

PureNext ==
    \/ ApplyTryFrom
    \/ ApplyIntoU8
    \/ ApplyFetchOpcode
    \/ ApplyCacheIndexFrom
    \/ ApplyCacheIndexRead
    \/ ApplySmall
    \/ ApplyCacheString
    \/ ApplyStoreLoad
    \/ ApplyPriorityNum
    \/ ApplyNumPriority
    \/ ApplyToLine
    \/ ApplyVisit
    \/ ApplyFetchOne
    \/ ApplyWriteRecord

SpecPure == InitPure /\ [][PureNext]_vars

(***************************************************************************)
(* The chain under failing I/O: one action is one call on the machine the  *)
(* logger holds, handle(instruction) or needs_restart() with the Restart   *)
(* that follows a rotation.                                                *)
(***************************************************************************)
MaxSinkCalls == 5   \* calls made on the chain per behaviour

\* a write_all that returns Ok leaves every byte of the instruction
WholeWrite == 64
\* bytes a write leaves in the file: none or the opcode before it fails, all
WrittenPool == {0, 1, WholeWrite}

\* instructions the logger hands to its machine
SinkPool ==
    {[op |-> "Restart"],
     [op |-> "NewSpan", parent |-> 0, span |-> 1, name |-> StrName],
     [op |-> "FinishedSpan"],
     [op |-> "DeleteSpan", span |-> 1]}

\* the logger opens no batch inside another and finishes those it opens
SinkValid(i) ==
    IF i.op = "FinishedSpan" THEN rm.current_span # <<>>
    ELSE rm.current_span = <<>>

\* Rotate::handle for each instruction StringCache forwards
RECURSIVE RotateRunIo(_, _, _, _)
RotateRunIoNext(h, rest, written, returned) ==
    RotateRunIo(h.r, rest, written, returned /\ h.returned)
RotateRunIo(r, instructions, written, returned) ==
    IF instructions = <<>> THEN [r |-> r, returned |-> returned]
    ELSE RotateRunIoNext(RotateHandleIo(r, Head(instructions), written),
                         Tail(instructions), written, returned)

\* the chain has handled one instruction
SinkDelivered(call, r, s, w) ==
    /\ calls' = calls + 1
    /\ rm' = r.m
    /\ sc' = s.strings
    /\ rot' = w.r
    /\ sink' = [call EXCEPT !.returned = @ /\ w.returned]
    /\ UNCHANGED <<spans, rotated, fe_batch, rm_batch, sc_batch, su_batch,
                   sink_seg, su, pr, codecVars, probe, th, mach, inst>>

SinkThroughCache(call, from, r, s) ==
    SinkDelivered(call, r, s, RotateRunIo(from, s.out, call.written, TRUE))

SinkThroughChain(call, from, r) ==
    SinkThroughCache(call, from, r, StringCacheRun(sc, r.out, <<>>))

CallOf(op, i, order, o, written, n) ==
    [op |-> op, rot |-> rot, rm |-> rm, sc |-> sc, i |-> i, order |-> order,
     o |-> o, written |-> written, after |-> n.r, ret |-> n.restart,
     returned |-> n.returned]

\* machine.handle(instruction)
SinkHandle(i, order, written) ==
    /\ calls < MaxSinkCalls
    /\ SinkValid(i)
    /\ SinkThroughChain(
          CallOf("handle", i, order, IoOk, written,
                 [r |-> rot, restart |-> FALSE, returned |-> TRUE]),
          rot, RestartableMachineHandle(rm, i, order))

\* needs_restart() has returned n; if true, restart() hands Restart down
SinkAsked(n, order, o, written) ==
    IF n.restart
    THEN SinkThroughChain(
             CallOf("needs_restart", [op |-> "Restart"], order, o, written, n),
             n.r, RestartableMachineHandle(rm, [op |-> "Restart"], order))
    ELSE SinkDelivered(
             CallOf("needs_restart", NoInstruction, order, o, written, n),
             [m |-> rm], [strings |-> sc], [r |-> n.r, returned |-> TRUE])

\* TapeMachineLogger::machine, at the start of a callback
SinkNeedsRestart(order, o, written) ==
    /\ calls < MaxSinkCalls
    /\ rm.current_span = <<>>
    /\ SinkAsked(needs_restart(rot, o), order, o, written)

\* the log is at a path that is valid UTF-8 or not
InitSink ==
    /\ \E named \in BOOLEAN : InitWriterAt(named)
    /\ InitReader /\ InitCodec
    /\ probe = ProbeIdle /\ sink = IoIdle /\ th = ThreadsIdle
    /\ mach = MachIdle /\ inst = InstIdle

SinkNext ==
    \/ \E i \in SinkPool, order \in IterOrders(DOMAIN rm.span),
          written \in WrittenPool :
            SinkHandle(i, order, written)
    \/ \E order \in IterOrders(DOMAIN rm.span), o \in IoOutcomes,
          written \in WrittenPool :
            SinkNeedsRestart(order, o, written)

SpecSink == InitSink /\ [][SinkNext]_vars

(***************************************************************************)
(* Several threads: a callback is the steps lock, needs_restart, one       *)
(* handle per instruction, unlock (the guard is dropped on return).        *)
(***************************************************************************)
\* the callbacks a thread can make, each with the span it is about, the
\* instructions it hands over and the registry afterwards. The registry
\* hands out no id that a callback in progress is about, and closes no span
\* while one is.
InProgress(id) == \E t \in Threads : th.pc[t] # "idle" /\ th.span[t] = id

ThreadCallbacks ==
    {[span |-> id,
      batch |-> <<[op |-> "NewSpan", parent |-> 0, span |-> id,
                   name |-> StrName]>>
                    \o AddValues(attrs) \o <<[op |-> "FinishedSpan"]>>,
      spans |-> MapPut(spans, id,
                       [parent |-> 0, name |-> StrName, records |-> attrs])] :
        id \in {x \in 1..MaxSpanId : x \notin DOMAIN spans /\ ~InProgress(x)},
        attrs \in AttrsPool}
    \cup {[span |-> id,
           batch |-> <<[op |-> "NewRecord", span |-> id]>>
                         \o AddValues(<<v>>) \o <<[op |-> "FinishedRecord"]>>,
           spans |-> [spans EXCEPT ![id].records = @ \o <<v>>]] :
             id \in {x \in DOMAIN spans : ~InProgress(x)}, v \in FieldPool}
    \cup {[span |-> 0,
           batch |-> <<[op |-> "StartEvent", time |-> <<1, 2>>, span |-> 0,
                        target |-> StrOuter, priority |-> "INFO"],
                       [op |-> "FinishedEvent"]>>,
           spans |-> spans]}
    \cup {[span |-> id,
           batch |-> <<[op |-> "DeleteSpan", span |-> id]>>,
           spans |-> MapDel(spans, id)] :
             id \in {x \in DOMAIN spans : ~InProgress(x)}}

\* the sink received these instructions in callback c
Logged(c, instructions) ==
    [k \in 1..Len(instructions) |-> [c |-> c, op |-> instructions[k].op]]

\* a thread enters one of the four callbacks of Layer
ThreadCall(t, cb) ==
    /\ th.pc[t] = "idle"
    /\ calls < MaxCalls
    /\ calls' = calls + 1
    /\ spans' = cb.spans
    /\ th' = [th EXCEPT !.pc[t] = "lock", !.todo[t] = cb.batch,
                         !.span[t] = cb.span, !.call[t] = calls + 1]
    /\ UNCHANGED <<rm, sc, rot, rotated, fe_batch, rm_batch, sc_batch, su_batch,
                   sink_seg, su, pr, codecVars, probe, sink, mach, inst>>

\* a lock() that returns whether or not the mutex is held
ThreadLockFree(t) ==
    /\ th.pc[t] = "lock"
    /\ th' = [th EXCEPT !.lock = t, !.pc[t] = "ask"]
    /\ UNCHANGED <<writerVars, su, pr, codecVars, probe, sink, mach, inst>>

\* self.inner.lock(): returns once the mutex is free
ThreadLock(t) ==
    /\ th.pc[t] = "lock"
    /\ th.lock = 0
    /\ th' = [th EXCEPT !.lock = t, !.pc[t] = "ask"]
    /\ UNCHANGED <<writerVars, su, pr, codecVars, probe, sink, mach, inst>>

\* machine.needs_restart() and, if it says so, restart(): Restart is handed
\* over before the instructions of the callback
ThreadAsked(t, n) ==
    /\ rot' = n.r
    /\ th' = [th EXCEPT
                !.pc[t] = "handle",
                !.todo[t] = IF n.restart THEN LoggerRestart \o @ ELSE @,
                !.log = IF n.restart
                        THEN Append(@, [c |-> th.call[t], op |-> "rotate"])
                        ELSE @]
    /\ UNCHANGED <<spans, calls, rm, sc, rotated, fe_batch, rm_batch, sc_batch,
                   su_batch, sink_seg, su, pr, codecVars, probe, sink, mach, inst>>

\* a logger that asks needs_restart after the first instruction of the
\* callback: Restart is handed over inside the batch
ThreadAskedLate(t, n) ==
    /\ rot' = n.r
    /\ th' = [th EXCEPT
                !.pc[t] = "handle",
                !.todo[t] = IF n.restart
                            THEN <<Head(@)>> \o LoggerRestart \o Tail(@) ELSE @,
                !.log = IF n.restart
                        THEN Append(@, [c |-> th.call[t], op |-> "rotate"])
                        ELSE @]
    /\ UNCHANGED <<spans, calls, rm, sc, rotated, fe_batch, rm_batch, sc_batch,
                   su_batch, sink_seg, su, pr, codecVars, probe, sink, mach, inst>>

ThreadAskLate(t) ==
    /\ th.pc[t] = "ask"
    /\ ThreadAskedLate(t, do_needs_restart(rot))

ThreadAsk(t) ==
    /\ th.pc[t] = "ask"
    /\ ThreadAsked(t, do_needs_restart(rot))

\* machine.handle(instruction) down the chain
ThreadHandled(t, r, s) ==
    /\ rm' = r.m
    /\ sc' = s.strings
    /\ rot' = RotateRun(rot, s.out)
    /\ th' = [th EXCEPT !.todo[t] = Tail(@),
                         !.log = @ \o Logged(th.call[t], s.out)]
    /\ UNCHANGED <<spans, calls, rotated, fe_batch, rm_batch, sc_batch,
                   su_batch, sink_seg, su, pr, codecVars, probe, sink, mach, inst>>

ThreadThroughCache(t, r) ==
    ThreadHandled(t, r, StringCacheRun(sc, r.out, <<>>))

ThreadHandle(t, order) ==
    /\ th.pc[t] = "handle"
    /\ th.todo[t] # <<>>
    /\ ThreadThroughCache(t, RestartableMachineHandle(rm, Head(th.todo[t]), order))

\* the callback returns: the guard is dropped
ThreadUnlock(t) ==
    /\ th.pc[t] = "handle"
    /\ th.todo[t] = <<>>
    /\ th' = [th EXCEPT !.lock = 0, !.pc[t] = "idle", !.span[t] = 0]
    /\ UNCHANGED <<writerVars, su, pr, codecVars, probe, sink, mach, inst>>

ThreadNext ==
    \/ \E t \in Threads, cb \in ThreadCallbacks : ThreadCall(t, cb)
    \/ \E t \in Threads : ThreadLock(t)
    \/ \E t \in Threads : ThreadAsk(t)
    \/ \E t \in Threads, order \in IterOrders(DOMAIN rm.span) :
            ThreadHandle(t, order)
    \/ \E t \in Threads : ThreadUnlock(t)

SpecThreads == Init /\ [][ThreadNext]_vars

(***************************************************************************)
(* The threads with values whose Debug rendering logs. record_debug runs   *)
(* format!("{value:?}") inside the callback, under the guard; the Debug of *)
(* the value is code of the application, which may emit an event: on_event *)
(* then runs on the same thread and calls lock() on the mutex the thread   *)
(* holds. std leaves open what that lock() does, but it does not return:   *)
(* it blocks for good or it panics. A panic unwinds through the callback,  *)
(* the guard is dropped and the mutex is poisoned, and the lock().unwrap() *)
(* of every later callback panics.                                         *)
(***************************************************************************)
\* a thread panicked with the guard: the mutex is poisoned
Poisoned == \E t \in Threads : th.pc[t] = "panicked"

\* self.inner.lock().unwrap() on a mutex that is not poisoned
ReentryLock(t) == ~Poisoned /\ ThreadLock(t)

\* self.inner.lock().unwrap() on a poisoned mutex
ThreadLockPoisoned(t) ==
    /\ th.pc[t] = "lock"
    /\ Poisoned
    /\ th' = [th EXCEPT !.pc[t] = "panicked"]
    /\ UNCHANGED <<writerVars, su, pr, codecVars, probe, sink, mach, inst>>

\* VisitMachine::record_debug: the Debug of the value emits an event, and
\* on_event calls machine() on this thread; the value would reach the
\* machine as a String
ThreadReenter(t) ==
    /\ th.pc[t] = "handle"
    /\ th.todo[t] # <<>>
    /\ Head(th.todo[t]).op = "AddValue"
    /\ Head(th.todo[t]).value.t = "String"
    /\ th' = [th EXCEPT !.pc[t] = "relock"]
    /\ UNCHANGED <<writerVars, su, pr, codecVars, probe, sink, mach, inst>>

LockOutcomes == {"deadlock", "panic"}

\* lock() by the thread that holds the mutex
ThreadRelock(t, outcome) ==
    /\ th.pc[t] = "relock"
    /\ th' = IF outcome = "deadlock"
             THEN [th EXCEPT !.pc[t] = "blocked"]
             ELSE [th EXCEPT !.pc[t] = "panicked", !.lock = 0]
    /\ UNCHANGED <<writerVars, su, pr, codecVars, probe, sink, mach, inst>>

ReentryNext ==
    \/ \E t \in Threads, cb \in ThreadCallbacks : ThreadCall(t, cb)
    \/ \E t \in Threads : ReentryLock(t)
    \/ \E t \in Threads : ThreadLockPoisoned(t)
    \/ \E t \in Threads : ThreadAsk(t)
    \/ \E t \in Threads, order \in IterOrders(DOMAIN rm.span) :
            ThreadHandle(t, order)
    \/ \E t \in Threads : ThreadUnlock(t)
    \/ \E t \in Threads : ThreadReenter(t)
    \/ \E t \in Threads, outcome \in LockOutcomes : ThreadRelock(t, outcome)

SpecReentry == Init /\ [][ReentryNext]_vars

(***************************************************************************)
(* One machine fed any instructions, well-formed or not: a Printer as the  *)
(* viewer drives it, or a RestartableMachine. One action is one handle.    *)
(***************************************************************************)
MaxFed == 6         \* instructions handed to the machine

MachinePool ==
    {[op |-> "Restart"], [op |-> "FinishedSpan"], [op |-> "FinishedRecord"],
     [op |-> "FinishedEvent"]}
    \cup {[op |-> "NewSpan", parent |-> p, span |-> s, name |-> StrName] :
            p \in {0, 1}, s \in {1, 2}}
    \cup {[op |-> o, span |-> s] : o \in {"NewRecord", "DeleteSpan"}, s \in {1, 2}}
    \cup {[op |-> "StartEvent", time |-> <<0, 0>>, span |-> s, target |-> StrT,
           priority |-> "INFO"] : s \in 0..2}
    \cup {[op |-> "AddValue", name |-> StrA, value |-> v] :
            v \in {Val("Debug", StrB, 0), Val("Integer", <<>>, 5)}}

\* what the instructions handed over so far are, taken as the front end means
\* them: the batch that is open (<<>>: none), the fields recorded for each span
\* announced and not closed since, in the order recorded, and whether every
\* instruction so far came where the front end may send it
GhostNew == [open |-> <<>>, fields |-> EmptyMap, wf |-> TRUE]

Open(kind, id) == <<[kind |-> kind, id |-> id]>>
OpenIs(g, kinds) == g.open # <<>> /\ g.open[1].kind \in kinds

\* the front end sends the instruction in this place: batches are bracketed
\* and not nested, a span is announced once, a record is for a span announced
WellPlaced(g, instruction) ==
    CASE instruction.op = "NewSpan" ->
           g.open = <<>> /\ instruction.span \notin DOMAIN g.fields
      [] instruction.op = "NewRecord" ->
           g.open = <<>> /\ instruction.span \in DOMAIN g.fields
      [] instruction.op = "AddValue" -> g.open # <<>>
      [] instruction.op = "FinishedSpan" -> OpenIs(g, {"span"})
      [] instruction.op = "FinishedRecord" -> OpenIs(g, {"record"})
      [] instruction.op = "FinishedEvent" -> OpenIs(g, {"event"})
      [] OTHER -> g.open = <<>>

GhostAfter(g, instruction) ==
    IF ~(g.wf /\ WellPlaced(g, instruction)) THEN [g EXCEPT !.wf = FALSE]
    ELSE CASE instruction.op = "NewSpan" ->
                [g EXCEPT !.open = Open("span", instruction.span),
                          !.fields = MapPut(@, instruction.span, <<>>)]
           [] instruction.op = "NewRecord" ->
                [g EXCEPT !.open = Open("record", instruction.span)]
           [] instruction.op = "StartEvent" ->
                [g EXCEPT !.open = Open("event", instruction.span)]
           [] instruction.op = "AddValue" ->
                IF OpenIs(g, {"event"}) THEN g
                ELSE [g EXCEPT !.fields[g.open[1].id] =
                        Append(@, [name |-> instruction.name,
                                   value |-> instruction.value])]
           [] instruction.op \in {"FinishedSpan", "FinishedRecord", "FinishedEvent"} ->
                [g EXCEPT !.open = <<>>]
           [] instruction.op = "DeleteSpan" ->
                [g EXCEPT !.fields = MapDel(@, instruction.span)]
           [] OTHER -> g

MachOf(who, m) ==
    [who |-> who, n |-> 0, last |-> [op |-> "None"], m |-> m, prev |-> m,
     panic |-> FALSE, g |-> GhostNew]

InitMachines ==
    /\ InitWriter /\ InitReader /\ InitCodec
    /\ probe = ProbeIdle /\ sink = IoIdle /\ th = ThreadsIdle /\ inst = InstIdle
    /\ \/ mach = MachOf("Printer", PrinterNew)
       \/ mach = MachOf("RestartableMachine", RestartableMachineNew)

\* the machine has handled the instruction, or panicked in it
Fed(instruction, m, panic) ==
    /\ mach' = [mach EXCEPT !.n = @ + 1, !.last = instruction, !.prev = mach.m,
                            !.m = m, !.panic = panic,
                            !.g = GhostAfter(@, instruction)]
    /\ UNCHANGED <<writerVars, codecVars, su, pr, probe, sink, th, inst>>

MayFeed(who) == mach.who = who /\ ~mach.panic /\ mach.n < MaxFed

PrinterFed(instruction, r) == Fed(instruction, r.pr, r.panic)

\* Printer::handle
FeedPrinter(instruction) ==
    /\ MayFeed("Printer")
    /\ PrinterFed(instruction, PrinterHandle(mach.m, instruction))

\* RestartableMachine::handle
FeedRestartable(instruction, order) ==
    /\ MayFeed("RestartableMachine")
    /\ IF RestartableMachinePanics(mach.m, instruction)
       THEN Fed(instruction, mach.m, TRUE)
       ELSE Fed(instruction,
                RestartableMachineHandle(mach.m, instruction, order).m, FALSE)

MachinesNext ==
    \/ \E instruction \in MachinePool : FeedPrinter(instruction)
    \/ \E instruction \in MachinePool, order \in IterOrders(DOMAIN mach.m.span) :
          FeedRestartable(instruction, order)

SpecMachines == InitMachines /\ [][MachinesNext]_vars

(***************************************************************************)
(* A RestartableMachine with a Printer as its forward, fed any             *)
(* instructions: the Printer handles what the RestartableMachine hands on, *)
(* the replay of a Restart included. One action is one handle of the       *)
(* RestartableMachine.                                                     *)
(***************************************************************************)
\* Printer::handle called for each instruction of a sequence, up to a panic
RECURSIVE PrinterRun(_, _)
PrinterRunNext(r, rest) == IF r.panic THEN r ELSE PrinterRun(r.pr, rest)
PrinterRun(p, instructions) ==
    IF instructions = <<>> THEN [pr |-> p, panic |-> FALSE]
    ELSE PrinterRunNext(PrinterHandle(p, Head(instructions)), Tail(instructions))

\* RestartableMachine::new(Printer::new(out, false))
PairNew == [rm |-> RestartableMachineNew, pr |-> PrinterNew]

InitPair ==
    /\ InitWriter /\ InitReader /\ InitCodec
    /\ probe = ProbeIdle /\ sink = IoIdle /\ th = ThreadsIdle /\ inst = InstIdle
    /\ mach = MachOf("Pair", PairNew)

PairFed(instruction, r, into) ==
    Fed(instruction, [rm |-> r.m, pr |-> into.pr], into.panic)

PairForward(instruction, r) ==
    PairFed(instruction, r, PrinterRun(mach.m.pr, r.out))

\* RestartableMachine::handle with self.forward the Printer
FeedPair(instruction, order) ==
    /\ MayFeed("Pair")
    /\ IF RestartableMachinePanics(mach.m.rm, instruction)
       THEN Fed(instruction, mach.m, TRUE)
       ELSE PairForward(instruction,
                        RestartableMachineHandle(mach.m.rm, instruction, order))

PairNext ==
    \E instruction \in MachinePool, order \in IterOrders(DOMAIN mach.m.rm.span) :
        FeedPair(instruction, order)

SpecPair == InitPair /\ [][PairNext]_vars

(***************************************************************************)
(* Installing loggers (lib.rs): one action is one call of install_logger   *)
(* or install_rotate_logger. A call is kept with what it wrote to its own  *)
(* output or file, the global default before and after it, and the events  *)
(* it emitted and the logger they went to.                                 *)
(***************************************************************************)
MaxInstalls == 3    \* install calls per behaviour

WithConsole == {"AnsiColors", "PureText", "Disabled"}

\* TapeMachineLogger::new: the machine handles Restart
TapeMachineLoggerNew == <<[op |-> "Restart"]>>

\* Store::handle of each instruction of a sequence, on its writer
StoreRun(instructions) ==
    Flatten([k \in 1..Len(instructions) |-> DoHandleCached(instructions[k])])

\* out_logger: what the writer holds once the logger is made
out_logger ==
    StoreRun(StringCacheRun(StringCacheNew, TapeMachineLoggerNew, <<>>).out)

\* rotate_logger on a file that was opened: the Rotate once the logger is made
rotate_logger ==
    RotateRun(RotateNew,
              StringCacheRun(StringCacheNew,
                             RestartableMachineRun(RestartableMachineNew,
                                                   TapeMachineLoggerNew,
                                                   <<>>, <<>>).out,
                             <<>>).out)

\* printer_logger on stderr: the lines on stderr once the logger is made
printer_logger == PrinterHandle(PrinterNew, TapeMachineLoggerNew[1]).pr.out

\* do_installer_logger: the printer is made if a console is asked for, try_init
\* fails if a global default is set, and the events go to the default there
\* is after it: Logger initialized, or the warning and the error
do_installer_logger(fn, path, console, wrote, renamed) ==
    LET n == Len(inst.calls) + 1
        init == IF inst.installed = 0 THEN "Ok" ELSE "Err"
        after == IF init = "Ok" THEN n ELSE inst.installed
    IN  [fn |-> fn, path |-> path, console |-> console, made |-> TRUE,
         wrote |-> wrote, renamed |-> renamed,
         stderr |-> IF console = "Disabled" THEN <<>> ELSE printer_logger,
         init |-> init, before |-> inst.installed, after |-> after,
         events |-> IF init = "Ok" THEN <<"TRACE">> ELSE <<"WARN", "DEBUG">>]

\* Rotate::new failed: install_rotate_logger returns the error
NotMade(fn, path, console) ==
    [fn |-> fn, path |-> path, console |-> console, made |-> FALSE,
     wrote |-> <<>>, renamed |-> FALSE, stderr |-> <<>>, init |-> "none",
     before |-> inst.installed, after |-> inst.installed, events |-> <<>>]

Installed(call) ==
    /\ inst' = [installed |-> call.after,
                calls |-> Append(inst.calls, call),
                files |-> IF call.path = 0 THEN inst.files
                          ELSE [inst.files EXCEPT ![call.path] = @ \o call.wrote]]
    /\ UNCHANGED <<writerVars, codecVars, su, pr, probe, sink, th, mach>>

install_logger(console) ==
    /\ Len(inst.calls) < MaxInstalls
    /\ Installed(do_installer_logger("install_logger", 0, console, out_logger,
                                     FALSE))

\* the file at path is opened for appending, or the open fails
install_rotate_logger(path, console, opened) ==
    /\ Len(inst.calls) < MaxInstalls
    /\ IF opened
       THEN Installed(do_installer_logger("install_rotate_logger", path, console,
                                          rotate_logger.path,
                                          rotate_logger.path1 # <<>>))
       ELSE Installed(NotMade("install_rotate_logger", path, console))

InstallNext ==
    \/ \E console \in WithConsole : install_logger(console)
    \/ \E path \in 1..NumPaths, console \in WithConsole, opened \in BOOLEAN :
          install_rotate_logger(path, console, opened)

SpecInstall == Init /\ [][InstallNext]_vars

(***************************************************************************)
(* Properties                                                              *)
(***************************************************************************)
\* the instructions handed to Store, all through the uncached entry point
StoredUncached == \A k \in 1..Len(stored) : ~stored[k].cached
StoredInstructions == [k \in 1..Len(stored) |-> stored[k].i]

\* the tape was written whole and nothing precedes it
WholeTape == phase = "view" /\ garbage = <<>> /\ cut = 0

\* C1: storing a sequence S of uncached instructions that begins with Restart
\* and loading the bytes with a fresh Load, fetch_one after fetch_one, yields
\* exactly S and then EOF.
C1_StoreLoadRoundTrip ==
    (WholeTape /\ StoredUncached) => (ld = "ok" /\ ld_out = StoredInstructions)

\* C2: the tape that is the single byte 255, read by a fresh Load, yields
\* the instruction Restart and then EOF.
C2_RestartDelivered ==
    (phase = "view" /\ garbage \o tape = <<IdToByte("Restart")>>)
        => (ld = "ok" /\ ld_out = <<[op |-> "Restart"]>>)

\* C3: what StringUncache hands downstream is exactly what StringCache was
\* given, instruction by instruction, with every string the original one and
\* no NewString among them, however many Restart have passed.
C3_CacheTransparent == su_batch = rm_batch

\* C4: after any number of Restart the reader's string table resolves every
\* index the writer has assigned since the last Restart to the string the
\* writer assigned it to.
C4_TablesInStep ==
    \A s \in DOMAIN sc : sc[s] < Len(su) /\ su[sc[s] + 1] = s

\* the indices an instruction of the cached view refers to
CachedIndices(i) ==
    CASE i.op = "NewSpan" -> IF i.name.c THEN {i.name.i} ELSE {}
      [] i.op = "StartEvent" -> IF i.target.c THEN {i.target.i} ELSE {}
      [] i.op = "AddValue" ->
           (IF i.name.c THEN {i.name.i} ELSE {})
               \cup (IF i.value.c THEN {i.value.i} ELSE {})
      [] OTHER -> {}

NewStringsBefore(seq, k) ==
    Cardinality({j \in 1..(k - 1) : seq[j].op = "NewString"})

LiveBatch(id) ==
    <<[op |-> "NewSpan", parent |-> spans[id].parent, span |-> id,
       name |-> spans[id].name]>>
        \o [k \in 1..Len(spans[id].records) |->
                [op |-> "AddValue", name |-> spans[id].records[k].name,
                 value |-> spans[id].records[k].value]]
        \o <<[op |-> "FinishedSpan"]>>

RECURSIVE LiveBatches(_)
LiveBatches(order) ==
    IF order = <<>> THEN <<>>
    ELSE LiveBatch(Head(order)) \o LiveBatches(Tail(order))

RECURSIVE BytesOf(_)
BytesOf(instructions) ==
    IF instructions = <<>> THEN <<>>
    ELSE DoHandleCached(Head(instructions)) \o BytesOf(Tail(instructions))

StringAt(strings, i) == CHOOSE s \in DOMAIN strings : strings[s] = i

\* a cached instruction read with the writer's own table
ReadBack(strings, i) ==
    CASE i.op = "NewSpan" ->
           [i EXCEPT !.name = IF i.name.c THEN StringAt(strings, i.name.i)
                               ELSE i.name.s]
      [] i.op = "StartEvent" ->
           [i EXCEPT !.target = IF i.target.c THEN StringAt(strings, i.target.i)
                                 ELSE i.target.s]
      [] i.op = "AddValue" ->
           [i EXCEPT !.name = IF i.name.c THEN StringAt(strings, i.name.i)
                               ELSE i.name.s,
                     !.value = Val(i.value.t,
                                   IF i.value.c THEN StringAt(strings, i.value.i)
                                   ELSE i.value.s,
                                   i.value.n)]
      [] OTHER -> i

WithoutNewString(seq) == SelectSeq(seq, LAMBDA i : i.op # "NewString")

\* an instruction without its strings
Skeleton(i) ==
    CASE i.op = "NewSpan" -> [i EXCEPT !.name = <<>>]
      [] i.op = "StartEvent" -> [i EXCEPT !.target = <<>>]
      [] i.op = "AddValue" ->
           [i EXCEPT !.name = <<>>,
                     !.value = IF i.value.t = "String"
                               THEN Val("String", <<>>, 0) ELSE i.value]
      [] OTHER -> i

Skeletons(seq) == [k \in 1..Len(seq) |-> Skeleton(seq[k])]

\* the first position after k that holds no NewString, or 0
NextInstruction(seq, k) ==
    IF \E j \in (k + 1)..Len(seq) : seq[j].op # "NewString"
    THEN CHOOSE j \in (k + 1)..Len(seq) :
            /\ seq[j].op # "NewString"
            /\ \A h \in (k + 1)..(j - 1) : seq[h].op = "NewString"
    ELSE 0

\* the replay: whole NewSpan, AddValue*, FinishedSpan batches and nothing else
IsReplay(seq) ==
    \A k \in 1..Len(seq) :
        /\ seq[k].op \in {"NewSpan", "AddValue", "FinishedSpan"}
        /\ (k = 1 \/ seq[k - 1].op = "FinishedSpan") <=> seq[k].op = "NewSpan"
        /\ k = Len(seq) => seq[k].op = "FinishedSpan"

RECURSIVE Fetches(_, _, _, _)
FetchesAfter(bytes, r, acc) ==
    IF r.k = "eof" THEN acc
    ELSE IF r.k = "err"
    THEN Fetches(bytes, r.pos,
                 LoadRestart([pos |-> r.pos, started |-> r.started]).started,
                 Append(acc, [k |-> r.k, i |-> r.i, err |-> r.err]))
    ELSE Fetches(bytes, r.pos, r.started,
                 Append(acc, [k |-> r.k, i |-> r.i, err |-> r.err]))
Fetches(bytes, pos, started, acc) ==
    FetchesAfter(bytes, FetchOneCached(bytes, pos, started), acc)

\* a Load at the start of the input on which restart() was called
Restarted == LoadRestart(LoadNew)

OpcodeTable ==
    [Restart |-> 255, NewString |-> 1, NewSpan |-> 2, FinishedSpan |-> 4,
     NewRecord |-> 8, FinishedRecord |-> 16, StartEvent |-> 32,
     FinishedEvent |-> 64, AddValue |-> 128, DeleteSpan |-> 0]
OpcodeBytes == {OpcodeTable[id] : id \in InstructionIds}

\* C13: the ten instruction ids map to the bytes Restart 255, NewString 1,
\* NewSpan 2, FinishedSpan 4, NewRecord 8, FinishedRecord 16, StartEvent 32,
\* FinishedEvent 64, AddValue 128, DeleteSpan 0; the ten bytes are pairwise
\* distinct; id -> byte -> id is the identity; each of the other 246 bytes
\* is rejected with an error, by the conversion and by the fetch that reads
\* it as an opcode.
C13_InstructionIdBytes ==
    /\ Cardinality(OpcodeBytes) = 10
    /\ Cardinality(Bytes \ OpcodeBytes) = 246
    /\ (probe.done /\ probe.f = "u8::from") =>
          /\ probe.y = OpcodeTable[probe.x]
          /\ ByteToId(probe.y) = probe.x
    /\ (probe.done /\ probe.f = "InstructionId::try_from") =>
          IF probe.x \in OpcodeBytes
          THEN probe.y \in InstructionIds /\ OpcodeTable[probe.y] = probe.x
          ELSE probe.y = "Err"
    /\ (probe.done /\ probe.f = "fetch_one_cached" /\ probe.x \notin OpcodeBytes) =>
          probe.y.k = "err" /\ probe.y.err = "BadInstruction"

\* a byte outside the table was read as an opcode and rejected
C13_Witness ==
    /\ probe.done
    /\ probe.f = "fetch_one_cached"
    /\ probe.x = 3
    /\ probe.y.k = "err"

\* the levels from the least to the most severe
LevelOrder == <<"TRACE", "DEBUG", "INFO", "WARN", "ERROR">>

\* C20: priority_num maps TRACE, DEBUG, INFO, WARN, ERROR to 0, 1, 2, 3, 4,
\* strictly increasing with severity; num_priority(priority_num(p)) = p for
\* each of the five levels; num_priority of every number above 4 is ERROR.
C20_PriorityNumbers ==
    /\ (probe.done /\ probe.f = "priority_num") =>
          /\ \E k \in 1..5 : LevelOrder[k] = probe.x /\ probe.y = k - 1
          /\ num_priority(probe.y) = probe.x
    /\ \A j, k \in 1..5 :
          j < k => priority_num(LevelOrder[j]) < priority_num(LevelOrder[k])
    /\ (probe.done /\ probe.f = "num_priority" /\ probe.x > 4) =>
          probe.y = "ERROR"
    /\ (probe.done /\ probe.f = "num_priority" /\ probe.x <= 4) =>
          probe.y = LevelOrder[probe.x + 1]

\* a number above every level's was converted
C20_Witness ==
    /\ probe.done
    /\ probe.f = "num_priority"
    /\ probe.x = 65536
    /\ probe.y = "ERROR"

\* the bytes on the wire for an index: the fixext marker and what follows it
FixExt(marker, n, wire) == wire[1] = marker /\ Len(wire) = 1 + n

\* the u64 a form holds, byte by byte
HeldBy(ci) ==
    [j \in 1..8 |->
        IF ci.k = "U64" THEN ci.data[j + 1]
        ELSE IF j <= Len(ci.data) THEN ci.data[j] ELSE 0]

\* C14: CacheIndex::from(i) takes the form fixext1 (marker 0xd4, 2 bytes)
\* for 0 <= i <= 0xFFFF, fixext2 (0xd5, 3 bytes) for 0x1_0000..0xFF_FFFF,
\* fixext4 (0xd6, 5 bytes) for 0x100_0000..0xFF_FFFF_FFFF and fixext8 (0xd7,
\* 9 bytes) above; writing the index and reading it back returns i; reading
\* an index written in any form, a wider one than necessary included,
\* returns the index the form holds.
C14_CacheIndexRoundTrip ==
    /\ (probe.done /\ probe.f = "CacheIndex::from") =>
          /\ IF LeqU64(probe.x, U64_FFFF) THEN FixExt(212, 2, probe.y.wire)
             ELSE IF LeqU64(probe.x, U64_FFFFFF) THEN FixExt(213, 3, probe.y.wire)
             ELSE IF LeqU64(probe.x, U64_FFFFFFFFFF) THEN FixExt(214, 5, probe.y.wire)
             ELSE FixExt(215, 9, probe.y.wire)
          /\ probe.y.back = probe.x
    /\ (probe.done /\ probe.f = "CacheIndex::read") =>
          probe.y = HeldBy(probe.x)

\* the first index of the second range went to the wire as fixext2 and came
\* back
C14_Witness ==
    /\ probe.done
    /\ probe.f = "CacheIndex::from"
    /\ probe.x = <<0, 0, 1, 0, 0, 0, 0, 0>>
    /\ probe.y.wire = <<213, 0, 0, 1>>
    /\ probe.y.back = probe.x

\* the literal regions as the four conditions read together
SmallAsStated(id, len) ==
    \/ (LeqU64(id, U64_FFFF) /\ len < 4)
    \/ (~LeqU64(id, U64_FFFF) /\ LeqU64(id, U64_FFFFFF) /\ len < 5)
    \/ (~LeqU64(id, U64_FFFFFF) /\ LeqU64(id, U64_FFFFFFFFFF) /\ len < 7)
    \/ len < 11

\* the literal regions with the last one kept to the indices above the third
SmallByRange(id, len) ==
    \/ (LeqU64(id, U64_FFFF) /\ len < 4)
    \/ (~LeqU64(id, U64_FFFF) /\ LeqU64(id, U64_FFFFFF) /\ len < 5)
    \/ (~LeqU64(id, U64_FFFFFF) /\ LeqU64(id, U64_FFFFFFFFFF) /\ len < 7)
    \/ (~LeqU64(id, U64_FFFFFFFFFF) /\ len < 11)

\* what cache_string did with a string that was not in the table: a literal
\* and nothing interned, or NewString(s), index i for s and Cached(i)
InternedAt(i, s) ==
    /\ probe.y.out = <<[op |-> "NewString", str |-> s]>>
    /\ probe.y.cs = Cached(i)
    /\ probe.y.strings = MapPut(probe.x.strings, s, i)
KeptLiteral(s) ==
    /\ probe.y.out = <<>>
    /\ probe.y.cs = Present(s)
    /\ probe.y.strings = probe.x.strings
NewToTable ==
    /\ probe.done
    /\ probe.f = "cache_string"
    /\ probe.x.string \notin DOMAIN probe.x.strings

\* C15 as stated: a string of length L that is not interned, met while i
\* strings are interned, is emitted as a literal and nothing is interned
\* exactly when (i <= 0xFFFF and L < 4) or (0x1_0000 <= i <= 0xFF_FFFF and
\* L < 5) or (0x100_0000 <= i <= 0xFF_FFFF_FFFF and L < 7) or L < 11;
\* otherwise NewString(s) is forwarded, s gets index i and Cached(i) is
\* emitted.
C15_InterningAsStated ==
    /\ (probe.done /\ probe.f = "small") =>
          (probe.y <=> SmallAsStated(probe.x.id, probe.x.len))
    /\ NewToTable =>
          IF SmallAsStated(U64(Cardinality(DOMAIN probe.x.strings)),
                           Len(probe.x.string))
          THEN KeptLiteral(probe.x.string)
          ELSE InternedAt(Cardinality(DOMAIN probe.x.strings), probe.x.string)

\* C15: the same with the last region kept to i > 0xFF_FFFF_FFFF: the string
\* is a literal exactly when (i <= 0xFFFF and L < 4) or (0x1_0000 <= i <=
\* 0xFF_FFFF and L < 5) or (0x100_0000 <= i <= 0xFF_FFFF_FFFF and L < 7) or
\* (i > 0xFF_FFFF_FFFF and L < 11); otherwise NewString(s) is forwarded, s
\* gets index i and Cached(i) is emitted.
C15_InterningByRange ==
    /\ (probe.done /\ probe.f = "small") =>
          (probe.y <=> SmallByRange(probe.x.id, probe.x.len))
    /\ NewToTable =>
          IF SmallByRange(U64(Cardinality(DOMAIN probe.x.strings)),
                          Len(probe.x.string))
          THEN KeptLiteral(probe.x.string)
          ELSE InternedAt(Cardinality(DOMAIN probe.x.strings), probe.x.string)

\* a string of four bytes met by an empty table was interned at index 0
C15_Witness ==
    /\ NewToTable
    /\ probe.x.strings = EmptyMap
    /\ Len(probe.x.string) = 4
    /\ InternedAt(0, probe.x.string)

\* the value was stored and read back: the field is the last instruction
\* Load delivered, and the input ended after it
ReadBackAs(value) ==
    /\ probe.y.result = "ok"
    /\ probe.y.out # <<>>
    /\ probe.y.out[Len(probe.y.out)] = FieldOf(value)
StoredAndLoaded(tags) ==
    probe.done /\ probe.f = "store_load" /\ probe.x.value.t \in tags

\* C18: a Debug(s) value handed to Store, through the entry point for cached
\* instructions or the one for uncached instructions, is read back by Load
\* as Debug(s); a String(s) is read back as String(s).
C18_DebugTagSurvives ==
    StoredAndLoaded({"Debug", "String"}) => ReadBackAs(probe.x.value)

\* C19: an Integer(v) handed to Store is read back as Integer(v) and an
\* Unsigned(v) as Unsigned(v): the variant is kept, also for Unsigned below
\* 128 and for Integer from 128 up.
C19_NumberVariantKept ==
    StoredAndLoaded({"Integer", "Unsigned"}) => ReadBackAs(probe.x.value)

(***************************************************************************)
(* The writer: shape of the stream, the mutex, the file                    *)
(***************************************************************************)
\* what is under construction after the instructions of seq, starting from
\* open ("none", "span", "record" or "event"); "broken" if an instruction
\* arrived where it may not
RECURSIVE Construction(_, _)
ConstructionStep(op, open) ==
    CASE op = "Restart" -> IF open = "none" THEN "none" ELSE "broken"
      [] op = "NewString" -> open
      [] op = "NewSpan" -> IF open = "none" THEN "span" ELSE "broken"
      [] op = "FinishedSpan" -> IF open = "span" THEN "none" ELSE "broken"
      [] op = "NewRecord" -> IF open = "none" THEN "record" ELSE "broken"
      [] op = "FinishedRecord" -> IF open = "record" THEN "none" ELSE "broken"
      [] op = "StartEvent" -> IF open = "none" THEN "event" ELSE "broken"
      [] op = "FinishedEvent" -> IF open = "event" THEN "none" ELSE "broken"
      [] op = "AddValue" -> IF open \in {"span", "record", "event"} THEN open
                            ELSE "broken"
      [] op = "DeleteSpan" -> IF open = "none" THEN "none" ELSE "broken"
Construction(seq, open) ==
    IF seq = <<>> \/ open = "broken" THEN open
    ELSE Construction(Tail(seq), ConstructionStep(Head(seq).op, open))

\* the instructions of the callback itself: the Restart of machine() is not
\* among them
OwnBatch == IF rotated THEN Tail(fe_batch) ELSE fe_batch

\* b is opener, one AddValue per field of fields, closer
BatchOf(b, opener, fields, closer) ==
    /\ Len(b) = Len(fields) + 2
    /\ b[1].op = opener
    /\ b[Len(b)].op = closer
    /\ \A k \in 1..Len(fields) :
          /\ b[k + 1].op = "AddValue"
          /\ b[k + 1].name = fields[k].name
          /\ b[k + 1].value = fields[k].value
AddValuesBetween(b, opener, closer) ==
    /\ Len(b) >= 2
    /\ b[1].op = opener
    /\ b[Len(b)].op = closer
    /\ \A k \in 2..(Len(b) - 1) : b[k].op = "AddValue"

PastMaxLen == sink.rot.file /\ stream_position(sink.rot) > MaxLen

\* needs_restart returned false and left the handle and both files alone
NothingChanged == ~sink.ret /\ sink.after = sink.rot

NeedsRestartFailed ==
    \/ ~sink.rot.file
    \/ ~sink.o.position
    \/ /\ PastMaxLen
       /\ (sink.rot.named /\ ~sink.o.rename) \/ ~sink.o.create

\* what the machines upstream of Rotate hold after the call, computed from
\* what they held before it and the instruction alone
UpstreamOf(r) ==
    [m |-> r.m, strings |-> StringCacheRun(sink.sc, r.out, <<>>).strings]
UpstreamAfter ==
    IF sink.i = NoInstruction THEN [m |-> sink.rm, strings |-> sink.sc]
    ELSE UpstreamOf(RestartableMachineHandle(sink.rm, sink.i, sink.order))

Holders == {t \in Threads : th.pc[t] \in {"ask", "handle"}}

TRACE5 == <<84, 82, 65, 67, 69>>
DEBUG5 == <<68, 69, 66, 85, 71>>
INFO5 == <<32, 73, 78, 70, 79>>
WARN5 == <<32, 87, 65, 82, 78>>
ERROR5 == <<69, 82, 82, 79, 82>>
EPOCH == <<49, 57, 55, 48, 45, 48, 49, 45, 48, 49, 84, 48, 48, 58, 48, 48, 58, 48, 48, 90>>
LINE_OUTER_INNER ==
    <<49, 57, 55, 48, 45, 48, 49, 45, 48, 49, 84, 48, 48, 58, 48, 48, 58, 48, 48, 90, 32, 32,
     73, 78, 70, 79, 32, 111, 117, 116, 101, 114, 123, 97, 61, 98, 125, 58,
     105, 110, 110, 101, 114, 123, 125, 58, 32, 116, 58, 32, 120>>
IsDigit(b) == b >= 48 /\ b <= 57
\* dddd-dd-ddTdd:dd:dd, an optional fraction of a second, Z
IsIso8601Utc(ts) ==
    /\ Len(ts) >= 20
    /\ ts[5] = 45 /\ ts[8] = 45 /\ ts[11] = 84 /\ ts[14] = 58 /\ ts[17] = 58
    /\ \A k \in (1..19) \ {5, 8, 11, 14, 17} : IsDigit(ts[k])
    /\ ts[Len(ts)] = 90
    /\ Len(ts) > 20 =>
          /\ ts[20] = 46
          /\ Len(ts) > 21
          /\ \A k \in 21..(Len(ts) - 1) : IsDigit(ts[k])
\* the second of the day the timestamp names
SecondOfDay(ts) ==
    LET N(k) == 10 * (ts[k] - 48) + (ts[k + 1] - 48)
    IN  3600 * N(12) + 60 * N(15) + N(18)
Level5 ==
    [TRACE |-> TRACE5, DEBUG |-> DEBUG5, INFO |-> INFO5, WARN |-> WARN5,
     ERROR |-> ERROR5]
\* the texts joined with sep between them
RECURSIVE Joined(_, _)
Joined(texts, sep) ==
    IF texts = <<>> THEN <<>>
    ELSE IF Len(texts) = 1 THEN texts[1]
    ELSE texts[1] \o sep \o Joined(Tail(texts), sep)
\* name=value, the value as the printer writes values
NameValue(record) == record.name \o <<61>> \o write_value(record.value)
\* name{field=value field=value}:
SpanText(records) ==
    records.name \o <<123>>
        \o Joined([k \in 1..Len(records.records) |->
                      NameValue(records.records[k])], <<32>>)
        \o <<125, 58>>
\* an event field: the message alone, any other as name=value
EventFieldText(record) ==
    IF record.name = MESSAGE /\ record.value.t = "Debug" THEN record.value.s
    ELSE NameValue(record)
\* the line from the level on
AfterTimestamp(new_event, chain) ==
    <<32>> \o Level5[new_event.priority]
        \o (IF chain = <<>> THEN <<>>
            ELSE <<32>> \o Flatten([k \in 1..Len(chain) |-> SpanText(chain[k])]))
        \o <<32>> \o new_event.target \o <<58>>
        \o Flatten([k \in 1..Len(new_event.records) |->
                       <<32>> \o EventFieldText(new_event.records[k])])
\* the place of the first space of a text
FirstSpace(line) ==
    CHOOSE k \in 1..Len(line) : line[k] = 32 /\ \A j \in 1..(k - 1) : line[j] # 32
LineAsStated(new_event, chain, line) ==
    /\ \E k \in 1..Len(line) : line[k] = 32
    /\ IsIso8601Utc(SubSeq(line, 1, FirstSpace(line) - 1))
    /\ SecondOfDay(line) = IF new_event.time[2] >= 1000000000
                           THEN new_event.time[1] + 1 ELSE new_event.time[1]
    /\ new_event.time = <<0, 0>> => SubSeq(line, 1, 20) = EPOCH
    /\ SubSeq(line, FirstSpace(line), Len(line)) = AfterTimestamp(new_event, chain)
\* the two lines the documentation gives
OuterInner ==
    [new_event |-> NewEventOf(<<0, 0>>, "INFO",
                              <<[name |-> MESSAGE, value |-> Val("Debug", StrX, 0)]>>),
     from_root |-> <<[parent |-> 0, name |-> StrOuter,
                      records |-> <<[name |-> StrA,
                                     value |-> Val("Debug", StrB, 0)]>>],
                     [parent |-> 0, name |-> StrInner, records |-> <<>>]>>]
Bare(level) == [new_event |-> NewEventOf(<<0, 0>>, level, <<>>), from_root |-> <<>>]

\* C21: with color off the line of an event is the ISO-8601 UTC timestamp, a
\* space, the level in 5 characters, then (if the event is in a span) a space
\* and name{field=value field=value}: for each span from the root, then a
\* space, the target and a colon, then each field of the event after a space;
\* the lines the documentation gives come out as it gives them
C21_LineFormat ==
    (probe.f = "to_line" /\ probe.done) =>
        /\ LineAsStated(probe.x.new_event, probe.x.from_root, probe.y)
        /\ \A level \in Levels : Len(Level5[level]) = 5
        /\ probe.x = OuterInner => probe.y = LINE_OUTER_INNER
        /\ \A level \in Levels :
              probe.x = Bare(level) =>
                  probe.y = EPOCH \o <<32>> \o Level5[level] \o <<32>> \o StrT \o <<58>>

C21_Witness == probe.f = "to_line" /\ probe.done /\ probe.x = OuterInner

FieldAsStated(record, with_message, text) ==
    LET value == record.value
        after == SubSeq(text, Len(record.name) + 2, Len(text))
    IN  IF with_message /\ record.name = MESSAGE /\ value.t = "Debug"
        THEN text = value.s
        ELSE /\ Len(text) > Len(record.name)
             /\ SubSeq(text, 1, Len(record.name) + 1) = record.name \o <<61>>
             /\ value.t = "Debug" => after = value.s
             /\ value.t = "String" =>
                   /\ Len(after) >= 2 /\ after[1] = 34 /\ after[Len(after)] = 34
                   /\ (\A k \in 1..Len(value.s) : value.s[k] \notin {10, 34, 92})
                         => after = <<34>> \o value.s \o <<34>>

\* C22: among the event's own fields a field named message with a Debug value
\* is written as the value alone; every other field, a message that is not
\* Debug and every field of a span included, is written as name=value, a
\* Debug value as it is and a String value in double quotes
C22_MessageField ==
    /\ (probe.f = "write_record" /\ probe.done) =>
           FieldAsStated(probe.x.record, probe.x.with_message, probe.y)
    /\ (probe.f = "to_line" /\ probe.done /\ probe.x.from_root = <<>>
            /\ Len(probe.x.new_event.records) = 1) =>
           FieldAsStated(probe.x.new_event.records[1], TRUE,
                         SubSeq(probe.y, 31, Len(probe.y)))
    /\ (probe.f = "to_line" /\ probe.done /\ Len(probe.x.from_root) = 1
            /\ Len(probe.x.from_root[1].records) = 1
            /\ probe.x.new_event.records = <<>>) =>
           FieldAsStated(probe.x.from_root[1].records[1], FALSE,
                         SubSeq(probe.y, 28 + Len(probe.x.from_root[1].name) + 1,
                                Len(probe.y) - 5))

C22_Witness ==
    /\ probe.f = "write_record" /\ probe.done
    /\ probe.x.record.name = MESSAGE /\ probe.x.record.value.t = "Debug"
    /\ probe.x.with_message
    /\ probe.y = probe.x.record.value.s

LOST_SPAN_ == <<108, 111, 115, 116, 45, 115, 112, 97, 110, 45>>
\* the placeholder of a span: lost-span-{id}, no parent, no records
Placeholder(id) ==
    [parent |-> 0, name |-> LOST_SPAN_ \o <<48 + id>>, records |-> <<>>]
\* the first span that is not in the map on the way up from id, 0 if the way
\* ends at a root (or goes round: steps counts down)
RECURSIVE FirstMissing(_, _, _)
FirstMissing(span, id, steps) ==
    IF id \notin DOMAIN span THEN id
    ELSE IF span[id].parent = 0 \/ steps = 0 THEN 0
    ELSE FirstMissing(span, span[id].parent, steps - 1)
\* the spans of the map from below the missing one down to id
RECURSIVE Below(_, _, _)
Below(span, id, missing) ==
    IF id = missing THEN <<>>
    ELSE Below(span, span[id].parent, missing) \o <<span[id]>>
\* text is in line
Contains(line, text) ==
    \E k \in 0..(Len(line) - Len(text)) : SubSeq(line, k + 1, k + Len(text)) = text
\* Printer was handed FinishedEvent for an event in a span
EventFinished ==
    /\ mach.who = "Printer" /\ mach.last.op = "FinishedEvent"
    /\ mach.prev.new_event # <<>>
    /\ mach.prev.new_event[1].span # 0
MissingOf(p) == FirstMissing(p.span, p.new_event[1].span, MaxSpanId)
Rendered == mach.m.out[Len(mach.m.out)]

\* C23: when Printer finishes an event and the event's span or one of its
\* ancestors is not in the span map, the event is rendered all the same: the
\* missing span is a placeholder named lost-span-{id} with no parent and no
\* records, the chain starts from it, and the spans below it follow
C23_LostSpanRendered ==
    (EventFinished /\ MissingOf(mach.prev) # 0) =>
        /\ ~mach.panic
        /\ Len(mach.m.out) = Len(mach.prev.out) + 1
        /\ Rendered.event = mach.prev.new_event[1]
        /\ Rendered.spans =
              <<Placeholder(MissingOf(mach.prev))>>
                  \o Below(mach.prev.span, mach.prev.new_event[1].span,
                           MissingOf(mach.prev))
        /\ Contains(Rendered.line,
                    <<32>> \o Placeholder(MissingOf(mach.prev)).name
                        \o <<123, 125, 58>>)

\* an event in span 2 whose parent 1 is not in the map
C23_Witness ==
    /\ EventFinished /\ ~mach.panic
    /\ MissingOf(mach.prev) = 1 /\ mach.prev.new_event[1].span = 2
    /\ Len(Rendered.spans) = 2

\* the machine was handed NewRecord, with no batch open, for a span it has not
UnknownRecord ==
    /\ mach.last.op = "NewRecord"
    /\ mach.last.span \notin DOMAIN mach.prev.span
    /\ \/ mach.who = "Printer" /\ mach.prev.new_records = <<>>
       \/ mach.who = "RestartableMachine" /\ mach.prev.current_span = <<>>
\* Printer holds the placeholder as the span of the record batch, adds the
\* fields to it and stores it on FinishedRecord
PrinterKeepsLostRecord ==
    mach.who = "Printer" =>
        /\ UnknownRecord =>
              mach.m.new_records =
                  <<[id |-> mach.last.span, rec |-> Placeholder(mach.last.span)]>>
        /\ (mach.last.op = "AddValue" /\ mach.prev.new_records # <<>> /\ ~mach.panic) =>
              mach.m.new_records[1].rec.records =
                  Append(mach.prev.new_records[1].rec.records,
                         [name |-> mach.last.name, value |-> mach.last.value])
        /\ (mach.last.op = "FinishedRecord" /\ mach.prev.new_records # <<>>) =>
              /\ mach.prev.new_records[1].id \in DOMAIN mach.m.span
              /\ mach.m.span[mach.prev.new_records[1].id] =
                    mach.prev.new_records[1].rec

\* C24: a NewRecord(id) for a span that is not in the map does not abort the
\* machine: RestartableMachine goes on, and Printer takes a placeholder named
\* lost-span-{id} which holds the fields recorded and is in its map after
\* FinishedRecord
C24_UnknownRecordTolerated ==
    /\ UnknownRecord => ~mach.panic
    /\ PrinterKeepsLostRecord

\* the spans that are in the live map: all announced but the one of an open batch
LiveIds(g) ==
    DOMAIN g.fields \ (IF OpenIs(g, {"span", "record"}) THEN {g.open[1].id} ELSE {})

\* C30: after well-formed instructions the live map of RestartableMachine
\* holds the spans opened and not removed by DeleteSpan; the span of an open
\* NewRecord batch is in current and not in live, and back in live after
\* FinishedRecord; a span's records are its attributes and then the fields of
\* every later batch, in the order they came
C30_LiveMap ==
    (mach.who = "RestartableMachine" /\ mach.g.wf) =>
        /\ ~mach.panic
        /\ DOMAIN mach.m.span = LiveIds(mach.g)
        /\ \A id \in DOMAIN mach.m.span :
              mach.m.span[id].records = mach.g.fields[id]
        /\ IF OpenIs(mach.g, {"span", "record"})
           THEN /\ mach.m.current_span # <<>>
                /\ mach.m.current_span[1].id = mach.g.open[1].id
                /\ mach.m.current_span[1].records.records =
                      mach.g.fields[mach.g.open[1].id]
           ELSE mach.m.current_span = <<>>
        /\ (mach.last.op = "FinishedRecord") =>
              mach.prev.current_span[1].id \in DOMAIN mach.m.span

\* a record batch of one field has been added to a span announced with one
C30_Witness ==
    /\ mach.who = "RestartableMachine" /\ mach.g.wf
    /\ mach.last.op = "FinishedRecord"
    /\ 1 \in DOMAIN mach.m.span
    /\ Len(mach.m.span[1].records) = 2
    /\ mach.m.span[1].records[1] # mach.m.span[1].records[2]

\* the install calls made when a logger was installed already
SecondInstalls ==
    {k \in 1..Len(inst.calls) : inst.calls[k].made /\ inst.calls[k].before # 0}

\* C25: an install call made when a logger is installed leaves that logger
\* the default, reports a warning through it, writes nothing to its own
\* output or file, no Restart opcode either, and rotates nothing
C25_SecondInstallNoOp ==
    \A k \in SecondInstalls :
        /\ inst.calls[k].after = inst.calls[k].before
        /\ \E e \in 1..Len(inst.calls[k].events) : inst.calls[k].events[e] = "WARN"
        /\ inst.calls[k].wrote = <<>>
        /\ inst.calls[k].stderr = <<>>
        /\ ~inst.calls[k].renamed

(***************************************************************************)
(* Load: span ids that are 0, the uncached view                            *)
(***************************************************************************)
FetchedOne == probe.f = "fetch_one" /\ probe.done
\* the instructions whose span id has to be a span
NeedsSpan(i) == i.op \in {"NewSpan", "NewRecord", "DeleteSpan"}

\* C26: Load fails with ZeroSpan and delivers no instruction when the span id
\* of NewSpan, NewRecord or DeleteSpan is 0; a 0 as the parent of NewSpan or
\* as the span of StartEvent is None, which is how the encoder writes None
C26_ZeroSpan ==
    FetchedOne =>
        /\ (NeedsSpan(probe.x) /\ probe.x.span = 0) =>
              /\ probe.y.cached.k = "err" /\ probe.y.cached.err = "ZeroSpan"
              /\ probe.y.cached.i = NoInstruction
              /\ probe.y.plain.k = "err" /\ probe.y.plain.err = "ZeroSpan"
        /\ (NeedsSpan(probe.x) /\ probe.x.span # 0) =>
              /\ probe.y.cached.k = "instr"
              /\ probe.y.cached.i.span = probe.x.span
        /\ (probe.x.op = "NewSpan" /\ probe.x.span # 0) =>
              /\ probe.y.cached.i.parent = probe.x.parent
              /\ probe.x.parent = 0 => probe.y.tape[2] = 0
        /\ probe.x.op = "StartEvent" =>
              /\ probe.y.cached.k = "instr"
              /\ probe.y.cached.i.span = probe.x.span
              /\ probe.x.span = 0 => probe.y.tape[4] = 0

\* a NewSpan with no parent and the span id 0
C26_Witness ==
    /\ FetchedOne /\ probe.x.op = "NewSpan"
    /\ probe.x.parent = 0 /\ probe.x.span = 0
    /\ probe.y.cached.err = "ZeroSpan"

\* the instruction holds a Cached index as a span name, an event target, a
\* field name or a String or Debug value
CacheReference(i) ==
    \/ i.op = "NewSpan" /\ i.name.c
    \/ i.op = "StartEvent" /\ i.target.c
    \/ i.op = "AddValue" /\ i.name.c
    \/ i.op = "AddValue" /\ i.value.t \in {"String", "Debug"} /\ i.value.c
\* the instruction with the string of each Present in the place of the Present
Literals(i) ==
    IF i.op = "NewSpan"
    THEN [op |-> "NewSpan", parent |-> i.parent, span |-> i.span, name |-> i.name.s]
    ELSE IF i.op = "StartEvent"
    THEN [op |-> "StartEvent", time |-> i.time, span |-> i.span,
          target |-> i.target.s, priority |-> i.priority]
    ELSE IF i.op = "AddValue"
    THEN [op |-> "AddValue", name |-> i.name.s,
          value |-> [t |-> i.value.t, s |-> i.value.s, n |-> i.value.n]]
    ELSE i

\* C27: fetch_one returns the error UnexpectedCached for NewString and for
\* every instruction with a Cached index in a span name, event target, field
\* name, String value or Debug value; for any other instruction it returns
\* what fetch_one_cached returns, the literals taken out of their wrapping
C27_UnexpectedCached ==
    (FetchedOne /\ probe.y.cached.k = "instr") =>
        IF probe.y.cached.i.op = "NewString" \/ CacheReference(probe.y.cached.i)
        THEN /\ probe.y.plain.k = "err"
             /\ probe.y.plain.err = "UnexpectedCached"
             /\ probe.y.plain.i = NoInstruction
        ELSE /\ probe.y.plain.k = "instr"
             /\ probe.y.plain.i = Literals(probe.y.cached.i)
             /\ probe.y.plain.pos = probe.y.cached.pos

\* a field with a literal name and a Cached Debug value
C27_Witness ==
    /\ FetchedOne /\ probe.x.op = "AddValue"
    /\ ~probe.x.name.c /\ probe.x.value.t = "Debug" /\ probe.x.value.c
    /\ probe.y.cached.k = "instr" /\ probe.y.cached.i = probe.x
    /\ probe.y.plain.err = "UnexpectedCached"

(***************************************************************************)
(* The front end: the values it records                                    *)
(***************************************************************************)
Visited(types) == probe.f = "Visit" /\ probe.done /\ probe.x.type \in types
VariantOf ==
    [f64 |-> "Float", i64 |-> "Integer", u64 |-> "Unsigned", bool |-> "Bool",
     bytes |-> "ByteArray", str |-> "String", debug |-> "Debug",
     i128 |-> "ByteArray", u128 |-> "ByteArray", error |-> "String"]
\* the 16 bytes are the number, little end first
IsLe128(bytes, n) ==
    /\ Len(bytes) = 16
    /\ IF n >= 0
       THEN FromLE(SubSeq(bytes, 1, 3)) = n /\ \A k \in 4..16 : bytes[k] = 0
       ELSE FromLE(SubSeq(bytes, 1, 3)) = 16777216 + n
               /\ \A k \in 4..16 : bytes[k] = 255

\* C28: the front end hands over f64 as Float, i64 as Integer, u64 as Unsigned,
\* bool as Bool, bytes as ByteArray, str as String, a value recorded through
\* Debug as Debug of its rendering, an i128 or u128 as the ByteArray of its 16
\* little-endian bytes, and an error as String of its text
C28_RecordedVariants ==
    /\ Visited(DOMAIN VariantOf) => probe.y.t = VariantOf[probe.x.type]
    /\ Visited({"str", "debug", "error", "bytes", "f64"}) => probe.y.s = probe.x.s
    /\ Visited({"i64", "u64"}) => probe.y.n = probe.x.n
    /\ Visited({"bool"}) => (probe.y.n = 1) = probe.x.b
    /\ Visited({"i128", "u128"}) => IsLe128(probe.y.s, probe.x.n)

\* the same of every value but those recorded through Debug
OtherVariantsAsStated ==
    Visited({"debug"}) \/ C28_RecordedVariants

(***************************************************************************)
(* StringCache: the table between two Restart                              *)
(***************************************************************************)
IsNewString(i) == i.op = "NewString"
IsNotNewString(i) == i.op # "NewString"
\* the strings declared since the last Restart, in the order declared
Declared == SelectSeq(sink_seg, IsNewString)
\* the literal strings an instruction of the cached view carries
LiteralsOf(i) ==
    CASE i.op = "NewSpan" -> IF i.name.c THEN {} ELSE {i.name.s}
      [] i.op = "StartEvent" -> IF i.target.c THEN {} ELSE {i.target.s}
      [] i.op = "AddValue" ->
           (IF i.name.c THEN {} ELSE {i.name.s})
               \cup (IF i.value.t = "String" /\ ~i.value.c THEN {i.value.s} ELSE {})
      [] OTHER -> {}
\* the string a CacheString stands for, by the declarations since the Restart
StandsFor(c, s, i) == IF c THEN Declared[i + 1].str ELSE s
\* the instruction with every index replaced by the string declared for it
Resolved(i) ==
    CASE i.op = "NewSpan" -> [i EXCEPT !.name = StandsFor(@.c, @.s, @.i)]
      [] i.op = "StartEvent" -> [i EXCEPT !.target = StandsFor(@.c, @.s, @.i)]
      [] i.op = "AddValue" ->
           [i EXCEPT !.name = StandsFor(@.c, @.s, @.i),
                     !.value = Val(@.t, StandsFor(@.c, @.s, @.i), @.n)]
      [] OTHER -> i
ForwardedResolved ==
    [k \in 1..Len(SelectSeq(sc_batch, IsNotNewString)) |->
        Resolved(SelectSeq(sc_batch, IsNotNewString)[k])]

EventTraffic ==
    /\ mach.who = "RestartableMachine" /\ mach.g.wf
    /\ \/ mach.last.op \in {"StartEvent", "FinishedEvent"}
       \/ mach.last.op = "AddValue" /\ OpenIs(mach.g, {"event"})

IsAddValue(i) == i.op = "AddValue"

\* how many fields the spans of a set hold by the ghost
RECURSIVE FieldsIn(_, _)
FieldsIn(g, ids) ==
    IF ids = {} THEN 0
    ELSE Len(g.fields[CHOOSE id \in ids : TRUE])
            + FieldsIn(g, ids \ {CHOOSE id \in ids : TRUE})

\* C31: RestartableMachine forwards StartEvent, the AddValue of an open event
\* and FinishedEvent as they are and changes neither its span table nor
\* current_span in them; a replay after Restart carries as many AddValue as
\* fields were recorded in span and record batches, none of an event
C31_EventsLeaveSpans ==
    /\ EventTraffic =>
          /\ ~mach.panic
          /\ mach.m = mach.prev
          /\ \A order \in IterOrders(DOMAIN mach.prev.span) :
                RestartableMachineHandle(mach.prev, mach.last, order).out
                    = <<mach.last>>
    /\ (mach.who = "RestartableMachine" /\ mach.g.wf /\ mach.last.op = "Restart") =>
          \A order \in IterOrders(DOMAIN mach.prev.span) :
             Len(SelectSeq(RestartableMachineHandle(mach.prev, mach.last, order).out,
                           IsAddValue))
                 = FieldsIn(mach.g, DOMAIN mach.g.fields)

\* a field of an event in a live span has been handled
C31_Witness ==
    /\ EventTraffic
    /\ mach.last.op = "AddValue"
    /\ mach.g.open[1].id \in DOMAIN mach.m.span
    /\ mach.m.span[mach.g.open[1].id].records # <<>>

(***************************************************************************)
(* Printer and RestartableMachine keep the same spans                      *)
(***************************************************************************)
\* the pending span of the Printer is the current span of the machine
SamePending(p, m) ==
    IF m.current_span = <<>> THEN p.new_records = <<>>
    ELSE /\ p.new_records # <<>>
         /\ p.new_records[1].id = m.current_span[1].id
         /\ p.new_records[1].rec = m.current_span[1].records

\* C32: after each instruction of a well-formed sequence that both machines
\* handled, the span map of the Printer is the span table of the
\* RestartableMachine before it (same ids, parents, names and records in
\* order) and the pending span of the Printer is its current span, the
\* Printer having handled the replay of every Restart
C32_PrinterFollows ==
    (mach.who = "Pair" /\ mach.g.wf /\ ~mach.panic) =>
        /\ mach.m.pr.span = mach.m.rm.span
        /\ SamePending(mach.m.pr, mach.m.rm)

\* the Printer has handled the replay of two spans, one with a field
C32_Witness ==
    /\ mach.who = "Pair" /\ mach.g.wf /\ ~mach.panic
    /\ mach.last.op = "Restart"
    /\ DOMAIN mach.m.rm.span = {1, 2}
    /\ \E id \in {1, 2} : mach.m.rm.span[id].records # <<>>
    /\ mach.m.pr.span = mach.m.rm.span

(***************************************************************************)
(* Printer: Restart                                                        *)
(***************************************************************************)
\* C33: Printer::handle of Restart leaves the span map, the pending span or
\* record batch and the pending event as they were and writes nothing to
\* the output
C33_PrinterRestartNoOp ==
    (mach.who = "Printer" /\ mach.last.op = "Restart") =>
        /\ ~mach.panic
        /\ mach.m.span = mach.prev.span
        /\ mach.m.new_records = mach.prev.new_records
        /\ mach.m.new_event = mach.prev.new_event
        /\ mach.m.out = mach.prev.out

\* a Printer that holds a span and has printed a line has handled Restart
C33_Witness ==
    /\ mach.who = "Printer" /\ mach.last.op = "Restart"
    /\ DOMAIN mach.m.span # {}
    /\ mach.m.out # <<>>

(***************************************************************************)
(* The viewer loop ends                                                    *)
(***************************************************************************)
Input == garbage \o tape

\* a call of fetch_one_cached by the viewer leaves the reader further in the
\* input, or returns EOF at the end of the input
FetchConsumes ==
    [][(phase = "view" /\ vw.pc = "loop") =>
          \/ vw'.pos > vw.pos /\ vw'.pos <= Len(Input) + 1
          \/ /\ vw'.pos = vw.pos /\ vw.pos = Len(Input) + 1
             /\ vw'.pc = "done"]_vars

\* the loop makes no more turns than the input has bytes, and one for EOF
LoopBounded ==
    /\ Len(vw_out) <= Len(Input) + 1
    /\ vw.pos <= Len(Input) + 1

\* EOF ends the loop: the turn in which fetch_one_cached returns Ok(None) is
\* the last, the reader is at the end of the input, and no turn before it
\* returned Ok(None)
EofEndsLoop ==
    /\ \A k \in 1..Len(vw_out) :
          vw_out[k].k = "eof" => (k = Len(vw_out) /\ vw.pc = "done")
    /\ vw.pc = "done" =>
          /\ vw_out # <<>> /\ vw_out[Len(vw_out)].k = "eof"
          /\ vw.pos = Len(Input) + 1

\* C34: the loop of print_log ends on every input: it makes at most one turn
\* for each byte and one more, an error makes it restart and go on, and it
\* stops in the turn in which fetch_one_cached returns EOF and nowhere else
C34_LoopReachesEof ==
    /\ LoopBounded
    /\ EofEndsLoop
    /\ (phase = "view" /\ vw.pc # "loop") => vw.pc = "done"

(***************************************************************************)
(* CacheIndex: the byte after the fixext marker                            *)
(***************************************************************************)
\* C35: CacheIndex::read takes every byte after a fixext marker: the read of
\* a written index does not fail whatever that byte is; in fixext8 that byte
\* is not part of the index, which is the little-endian value of the eight
\* bytes after it, and the encoder writes it as 0; in the shorter forms that
\* byte is the lowest byte of the index
C35_AnyTypeByte ==
    /\ (probe.done /\ probe.f = "CacheIndex::read") =>
          /\ Len(probe.y) = 8
          /\ probe.x.k = "U64" => probe.y = SubSeq(probe.x.data, 2, 9)
          /\ probe.x.k # "U64" => probe.y[1] = probe.x.data[1]
    /\ (probe.done /\ probe.f = "CacheIndex::from" /\ probe.y.ci.k = "U64") =>
          /\ probe.y.wire[1] = 215 /\ Len(probe.y.wire) = 10
          /\ probe.y.wire[2] = 0
          /\ SubSeq(probe.y.wire, 3, 10) = probe.x

\* an index in fixext8 was read whose type byte is 7
C35_Witness ==
    /\ probe.done /\ probe.f = "CacheIndex::read"
    /\ probe.x.k = "U64"
    /\ probe.x.data[1] = 7
    /\ probe.x.data[2] = 1
    /\ probe.y = SubSeq(probe.x.data, 2, 9)

(***************************************************************************)
(* Rotate: after a rotation that failed                                    *)
(***************************************************************************)
\* the rotation was begun and its rename or its create failed
RotationFailed ==
    /\ sink.op = "needs_restart"
    /\ PastMaxLen /\ sink.o.position
    /\ (sink.rot.named /\ ~sink.o.rename) \/ ~sink.o.create

\* C36: a rotation whose rename or create fails returns false from
\* needs_restart and leaves Rotate with no file open; every call made with no
\* file open returns, a handle writing nothing and a needs_restart returning
\* false whatever the file system would answer, so that no Restart is handed
\* down; and the call leaves Rotate as it was, with no file open
C36_NoFileForGood ==
    /\ RotationFailed => (~sink.ret /\ ~sink.after.file /\ ~rot.file)
    /\ (sink.op # "none" /\ ~sink.rot.file) =>
          /\ sink.returned
          /\ ~sink.ret
          /\ sink.after = sink.rot
          /\ rot = sink.rot

\* needs_restart was asked of a Rotate left without a file, the file system
\* working again, and returned false
C36_Witness ==
    /\ sink.op = "needs_restart"
    /\ ~sink.rot.file
    /\ sink.o = IoOk
    /\ ~sink.ret
    /\ ~rot.file

(***************************************************************************)
(* Restart comes between batches                                           *)
(***************************************************************************)
\* thread t is about to hand Restart to the RestartableMachine
RestartNext(t) ==
    /\ th.pc[t] = "handle"
    /\ th.todo[t] # <<>>
    /\ Head(th.todo[t]).op = "Restart"

\* the spans a replay announces
Replayed(order) ==
    {Replay(rm.span, order)[k].span :
        k \in {j \in 1..Len(Replay(rm.span, order)) :
                  Replay(rm.span, order)[j].op = "NewSpan"}}

ChainsEnd(span) ==
    \A id \in DOMAIN span : ~span_from_root(span, id, 1).overflow

\* with the parents of MachinePool (none or span 1) the one cycle there can
\* be is span 1 announced as its own parent: without it the chains end
ChainsEndWithoutSelfParent ==
    (mach.who = "Printer" /\ \A id \in DOMAIN mach.m.span :
                                 mach.m.span[id].parent # id)
        => ChainsEnd(mach.m.span)

\* C38: whatever instructions the Printer has handled, the parents held in
\* its span map make no cycle, so span_from_root returns for every span, and
\* a FinishedEvent of an open event prints its line
C38_ChainEnds ==
    mach.who = "Printer" =>
        /\ ChainsEnd(mach.m.span)
        /\ (mach.last.op = "FinishedEvent" /\ mach.prev.new_event # <<>>)
              => ~mach.panic

(***************************************************************************)
(* The mutex of the logger is not taken twice by one thread                *)
(***************************************************************************)
\* a thread waits for the mutex and the thread that holds it is blocked
Starved(t) ==
    /\ th.pc[t] = "lock"
    /\ th.lock # 0 /\ th.lock # t
    /\ th.pc[th.lock] = "blocked"

\* C39: no callback calls a callback of the logger on its own thread while it
\* holds the mutex, so no thread asks for the mutex it holds, none is blocked
\* on it or panics at it, and no thread waits for a mutex that is never
\* given back
C39_NoReentry ==
    \A t \in Threads :
        /\ th.pc[t] \notin {"relock", "blocked", "panicked"}
        /\ ~Starved(t)

====
